---- MODULE Spec2Model ----
(***************************************************************************)
(* Model of the MCP JSON-RPC client of mcp-chatbot-demo: one call of       *)
(* listTools / callTool against a server whose behaviour is chosen         *)
(* nondeterministically at every request.  The repository holds two        *)
(* revisions of the client; the variable `build` says which one runs:      *)
(*   "index"   = src/packages/mcp-client/src/index.ts                      *)
(*   "part007" = src/unnamed/part_007 (adds GET fallback and retry loop)   *)
(* Spec and FairSpec are one call as a whole.  ParserSpec (the SseStream   *)
(* buffer at character level), RaceSpec (withTimeout), MappingSpec (the    *)
(* tools mapping of listTools) and ConcurrentSpec (two calls interleaved)  *)
(* study parts of the client on their own.                                 *)
(***************************************************************************)
EXTENDS Naturals, Integers, Sequences, FiniteSets, TLC

\* ------------------------------------------------------------------ bounds
MaxId == 2          \* ids a server may answer with are 0..MaxId; 0 stands for null
MaxEvents == 3      \* SSE events the server puts on the stream in one call

Builds == {"index", "part007"}
Ops == {"listTools", "callTool"}
Transports == {"http", "sse"}
RespIds == 0..MaxId

\* HTTP statuses a server answers a request with when it does not answer 2xx.
FailStatuses == {403, 404, 405, 500, 501}

\* ------------------------------------------------------------ value shapes
\* The `result` member of a JSON-RPC response: absent, a value without a
\* `tools` array, or a value whose `tools` member is an array.
ResultVals == {"undefined", "value", "toolsArray"}

NoResp == [kind |-> "none", jsonrpc |-> "", id |-> 0, error |-> FALSE, result |-> "undefined"]
NullResp == [kind |-> "null", jsonrpc |-> "", id |-> 0, error |-> FALSE, result |-> "undefined"]

\* Every JSON object a server may put in a response body or a message event.
JsonObjects ==
    [kind : {"object"}, jsonrpc : {"2.0", "1.0"}, id : RespIds,
     error : BOOLEAN, result : ResultVals]

\* What JSON.parse can return for a body that parses.
JsonValues == JsonObjects \cup {NullResp}

\* A server's behaviour on one HTTP request.
\*   k = "network": fetch rejects;  "timeout": the timer of withTimeout wins;
\*   "status": a non-2xx answer;    "ok": a 2xx answer whose body is
\*   unreadable, empty, not JSON ("garbage") or JSON.  The headers of an
\*   "ok" answer arrive before the timer fires; its body may still complete
\*   only after timeoutMs has passed ("late") or never ("never").
LateJson == [kind |-> "object", jsonrpc |-> "2.0", id |-> 1, error |-> FALSE,
             result |-> "toolsArray"]

Replies ==
    [k : {"network", "timeout"}, status : {0}, body : {"none"}, json : {NoResp}]
    \cup [k : {"status"}, status : FailStatuses, body : {"none"}, json : {NoResp}]
    \cup [k : {"ok"}, status : {200}, body : {"unreadable", "empty", "garbage"}, json : {NoResp}]
    \cup [k : {"ok"}, status : {200}, body : {"json"}, json : JsonValues]
    \cup [k : {"ok"}, status : {200}, body : {"late"}, json : {LateJson}]
    \cup [k : {"ok"}, status : {200}, body : {"never"}, json : {NoResp}]

\* Errors: the class of the thrown object, the McpClientError code, the HTTP
\* status the error carries or names in its message, and the message.
NoError == [cls |-> "none", code |-> "", status |-> 0, text |-> ""]
RawError == [cls |-> "Error", code |-> "", status |-> 0, text |-> "fetch failed"]
TypeError == [cls |-> "TypeError", code |-> "", status |-> 0, text |-> "Cannot read properties of null"]

HttpStatusError(status) ==
    [cls |-> "HttpStatusError", code |-> "", status |-> status, text |-> "HTTP error"]

McpClientError(text, code) ==
    [cls |-> "McpClientError", code |-> code, status |-> 0, text |-> text]

\* An McpClientError whose message names an HTTP status.
McpStatusError(text, code, status) ==
    [cls |-> "McpClientError", code |-> code, status |-> status, text |-> text]

\* What the two message templates of the catch block of sendViaHttp spell
\* out: `Couldn't list tools at ${config.url} (status ${error.status}). This
\* server may not implement JSON-RPC at this path.` and `Request failed at
\* ${config.url} (status ${error.status}).`
MessageParts(text) ==
    CASE text = "Couldn't list tools" ->
            [url |-> TRUE, status |-> TRUE, suggestion |-> TRUE]
      [] text = "Request failed" ->
            [url |-> TRUE, status |-> TRUE, suggestion |-> FALSE]
      [] OTHER ->
            [url |-> FALSE, status |-> FALSE, suggestion |-> FALSE]

Returned(v) == [state |-> "returned", val |-> v, err |-> NoError]
Thrown(e) == [state |-> "thrown", val |-> NoResp, err |-> e]
Pending == [state |-> "pending", val |-> NoResp, err |-> NoError]

\* An await that never settles: the caller stays blocked in it.
Hung == [state |-> "hung", val |-> NoResp, err |-> NoError]

\* ----------------------------------------------------------- withTimeout
\* The rejection of the timer branch: code 'timeout', the message given.
TimeoutError(message) == McpClientError(message, "timeout")

\* ----------------------------------------------------------- postJsonRpc
ReadBody_EmptyIsInvalid(reply, id) ==
    CASE reply.body = "never" -> Hung
      [] reply.body = "unreadable" ->
            Thrown(McpClientError("Failed to read response body", "invalid_response"))
      [] reply.body \in {"empty", "garbage"} ->
            Thrown(McpClientError("Failed to parse JSON-RPC response", "invalid_json"))
      [] OTHER -> Returned(reply.json)

\* The body handling shared by postJsonRpc and getJsonRpc.  `await
\* response.text()` runs outside withTimeout: a body that completes late is
\* read like any other, one that never completes blocks the call.
ReadBody(reply, id) ==
    CASE reply.body = "never" -> Hung
      [] reply.body = "unreadable" ->
            Thrown(McpClientError("Failed to read response body", "invalid_response"))
      [] reply.body = "empty" ->
            Returned([kind |-> "object", jsonrpc |-> "2.0", id |-> id,
                      error |-> FALSE, result |-> "undefined"])
      [] reply.body = "garbage" ->
            Thrown(McpClientError("Failed to parse JSON-RPC response", "invalid_json"))
      [] OTHER -> Returned(reply.json)

\* part_007 wraps a fetch rejection into McpClientError('network_error');
\* index.ts lets it propagate unchanged.
FetchFailure(b, reply) ==
    IF reply.k = "timeout" THEN TimeoutError("http_timeout")
    ELSE IF b = "part007" THEN McpClientError("fetch failed", "network_error")
    ELSE RawError

PostJsonRpc(b, reply, id) ==
    CASE reply.k \in {"network", "timeout"} -> Thrown(FetchFailure(b, reply))
      [] reply.k = "status" -> Thrown(HttpStatusError(reply.status))
      [] OTHER -> ReadBody(reply, id)

GetJsonRpc(reply, id) ==
    CASE reply.k \in {"network", "timeout"} -> Thrown(FetchFailure("part007", reply))
      [] reply.k = "status" -> Thrown(HttpStatusError(reply.status))
      [] OTHER -> ReadBody(reply, id)

\* ----------------------------------------------------------- sendViaHttp
ignoredStatuses == {404, 405, 501}

Warning(kind, label, url, status, detail) ==
    [kind |-> kind, label |-> label, url |-> url, status |-> status, detail |-> detail]

PostRejectedWarning == Warning("POST was rejected; retrying with GET", "", "url", 0, "")
Post404Warning == Warning("POST returned 404; continuing without handshake", "", "url", 404, "")

PushWarning_NoDedup(ws, hasWarnings, message) ==
    IF hasWarnings THEN Append(ws, message) ELSE ws

\* pushWarning: append unless the warnings array is absent (callTool passes
\* none) or already includes the message.
PushWarning(ws, hasWarnings, message) ==
    IF hasWarnings /\ \A i \in 1..Len(ws) : ws[i] # message
    THEN Append(ws, message)
    ELSE ws

\* The warning attemptInitialize pushes for the error it caught.
InitializeWarning(label, targetUrl, e) ==
    CASE e.cls = "HttpStatusError" /\ e.status \in ignoredStatuses ->
            Warning("responded with status; continuing without handshake",
                    label, targetUrl, e.status, "")
      [] e.cls = "HttpStatusError" ->
            Warning("returned status; continuing without handshake",
                    label, targetUrl, e.status, "")
      [] e.cls = "McpClientError" ->
            Warning("failed: message; continuing without handshake",
                    label, targetUrl, 0, e.text)
      [] OTHER ->
            Warning("failed; continuing without handshake", label, targetUrl, 0, "")

isRetryableError_AnyClientError(e) == e.cls = "McpClientError"

isRetryableError(e) == e.code = "http_timeout" \/ e.code = "network_error"

maxAttempts == 2

CatchTail_OneMessage(b, method, att, e) ==
    CASE e.cls = "HttpStatusError" ->
            [retry |-> FALSE,
             err |-> McpStatusError("Request failed", "http_error", e.status)]
      [] e.cls = "McpClientError" ->
            IF b = "part007" /\ att + 1 < maxAttempts /\ isRetryableError(e)
            THEN [retry |-> TRUE, err |-> NoError]
            ELSE [retry |-> FALSE, err |-> e]
      [] OTHER ->
            [retry |-> FALSE, err |-> McpClientError("HTTP transport failed", "http_error")]

\* The tail of the catch block of sendViaHttp: what is thrown for error e,
\* or that the loop continues (part_007 only).
CatchTail(b, method, att, e) ==
    CASE e.cls = "HttpStatusError" /\ method = "tools/list" ->
            [retry |-> FALSE,
             err |-> McpStatusError("Couldn't list tools", "http_error", e.status)]
      [] e.cls = "HttpStatusError" ->
            [retry |-> FALSE,
             err |-> McpStatusError("Request failed", "http_error", e.status)]
      [] e.cls = "McpClientError" ->
            IF b = "part007" /\ att + 1 < maxAttempts /\ isRetryableError(e)
            THEN [retry |-> TRUE, err |-> NoError]
            ELSE [retry |-> FALSE, err |-> e]
      [] OTHER ->
            [retry |-> FALSE, err |-> McpClientError("HTTP transport failed", "http_error")]

\* The statuses of a rejected POST that part_007 answers with the GET fallback.
FallbackStatuses == {403, 404, 405}

ShouldFallback_No404(b, e) ==
    /\ b = "part007"
    /\ e.cls = "HttpStatusError"
    /\ e.status \in {403, 405}

\* The two branches of the catch block that call executeGetFallback.
ShouldFallback(b, e) ==
    /\ b = "part007"
    /\ e.cls = "HttpStatusError"
    /\ e.status \in FallbackStatuses

FallbackWarnings_AlwaysNotes404(ws, hasWarnings, e) ==
    PushWarning(PushWarning(ws, hasWarnings, Post404Warning), hasWarnings,
                PostRejectedWarning)

\* The warnings pushed on the way to the GET: the 404 note first, then the
\* note of executeGetFallback.
FallbackWarnings(ws, hasWarnings, e) ==
    PushWarning(IF e.status = 404
                THEN PushWarning(ws, hasWarnings, Post404Warning)
                ELSE ws,
                hasWarnings, PostRejectedWarning)

ErrorAfterFallback_KeepsPostError(postErr, getErr) == postErr

\* `error = getError`: the error the rest of the catch block looks at once
\* the GET fallback has failed.
ErrorAfterFallback(postErr, getErr) == getErr

\* ------------------------------------------------------------- SSE values
\* The data of an SSE event is a string; what matters of it is whether it is
\* empty, whether it resolves as a URL path (and the sessionId it carries),
\* and what JSON.parse makes of it.
NoEvent == [event |-> "none", dk |-> "empty", session |-> "", json |-> NoResp]

SseEvents ==
    [event : {"endpoint"}, dk : {"empty", "badpath"}, session : {""}, json : {NoResp}]
    \cup [event : {"endpoint"}, dk : {"path"}, session : {"", "abc123"}, json : {NoResp}]
    \cup [event : {"message"}, dk : {"json"}, session : {""}, json : JsonValues]
    \cup [event : {"message"}, dk : {"empty", "path"}, session : {""}, json : {NoResp}]
    \cup [event : {"ping"}, dk : {"empty"}, session : {""}, json : {NoResp}]

\* safelyParseJson: the parsed value, or null when JSON.parse throws.
safelyParseJson(data) == IF data.dk = "json" THEN data.json ELSE NullResp

\* The predicate of waitForEvent(eventName).
IsNamed(evt, eventName) == evt.event = eventName

IsMessageFor_AnyMessage(evt, id) ==
    /\ evt.event = "message"
    /\ safelyParseJson(evt).kind = "object"

\* The predicate of waitForMessage(id): `payload?.id === id`.
IsMessageFor(evt, id) ==
    /\ evt.event = "message"
    /\ safelyParseJson(evt).kind = "object"
    /\ safelyParseJson(evt).id = id

\* What one reader.read() can deliver: one or two complete event blocks.
Chunks(room) ==
    {<<e>> : e \in IF room >= 1 THEN SseEvents ELSE {}}
    \cup {<<e1, e2>> : e1 \in (IF room >= 2 THEN SseEvents ELSE {}), e2 \in SseEvents}

WaitResult(evt, buf, del, st) ==
    [event |-> evt, buffer |-> buf, delivered |-> del, stream |-> st]

\* nextEvent under withTimeout(..., timeLeft): a block already in the buffer is
\* returned at once; otherwise the reader is read, which delivers a chunk,
\* reports the end of the stream (with or without a trailing block in the
\* buffer), rejects, or loses the race against the timer.
nextEvent(buf, del, st) ==
    IF buf # <<>>
    THEN {WaitResult(Head(buf), Tail(buf), del, st)}
    ELSE IF st = "open"
    THEN {WaitResult(Head(c), Tail(c), del + Len(c), st) : c \in Chunks(MaxEvents - del)}
         \cup {WaitResult(e, <<>>, del + 1, "ended") :
                 e \in IF del < MaxEvents THEN SseEvents ELSE {}}
         \cup {WaitResult(NoEvent, <<>>, del, s) : s \in {"open", "ended", "errored"}}
    ELSE {WaitResult(NoEvent, <<>>, del, st)}

\* One iteration of the loop of waitFor: the deadline has passed (null), or
\* nextEvent settles.
waitFor(buf, del, st) ==
    {WaitResult(NoEvent, buf, del, st)} \cup nextEvent(buf, del, st)

WaitForVerdict_EndsOnMismatch(evt, accepted) ==
    IF evt = NoEvent THEN "null"
    ELSE IF accepted THEN "event"
    ELSE "null"

\* The end of the loop body of waitFor: no event returns null, an event the
\* predicate accepts is returned, any other event is dropped and the loop
\* goes on.
WaitForVerdict(evt, accepted) ==
    IF evt = NoEvent THEN "null"
    ELSE IF accepted THEN "event"
    ELSE "continue"

\* The path of the endpoint event as buildPostUrl resolves it.
EndpointPath(evt) ==
    IF evt.session = "" THEN "/messages" ELSE "/messages?sessionId=abc123"

NextAfterInitialize_Fatal(at, r) ==
    IF r.state = "thrown" /\ r.err.cls = "HttpStatusError"
       /\ r.err.status \notin ignoredStatuses
    THEN "complete"
    ELSE IF at = "handshake" /\ r.state = "thrown" THEN "initialize" ELSE "post"

NextAfterInitialize_Both(at, r) ==
    IF at = "handshake" THEN "initialize" ELSE "post"

\* Where sendViaHttp goes after an attemptInitialize: a failed attempt at the
\* handshake URL is followed by one at config.url, anything else by the
\* primary POST.
NextAfterInitialize(at, r) ==
    IF at = "handshake" /\ r.state = "thrown" THEN "initialize" ELSE "post"

\* ---------------------------------------------------------------- state
VARIABLES
    build,        \* which revision of the client runs
    op,           \* "listTools" or "callTool"
    transport,    \* config.transport
    hasHandshakeUrl, \* config.handshakeUrl is set
    pc,           \* position of the call
    nextId,       \* the next id generateRequestId hands out
    payload,      \* the primary request: [id, method]
    warnings,     \* the warnings array of listTools
    sent,         \* every HTTP request issued so far
    attempt,      \* the retry counter of sendViaHttp
    postError,    \* the error the latest primary POST was rejected with
    answer,       \* the server's answer to the latest primary or fallback request
    buffer,       \* SseStream.buffer: complete blocks not yet returned
    delivered,    \* events the server has put on the stream
    streamState,  \* "none", "open", "ended" or "errored"
    connectReply, \* the server's answer to the GET that opens the event stream
    postReply,    \* the server's answer to the POST of sendViaSse: kind and status
    endpointEvent, \* the endpoint event sendViaSse got
    messageEvent, \* the message event sendViaSse got
    readerCancelled, \* times reader.cancel() was called
    aborted,      \* times controller.abort() was called
    rpc,          \* how sendRpc settled
    outcome,      \* how listTools / callTool settled
    parser,       \* an SseStream reading a stream of characters
    race,         \* one call of withTimeout
    mapping,      \* the tool records listTools maps
    calls,        \* several calls of the client in flight at once
    repeat,       \* listTools called again and again on one server
    worker,       \* one request to the worker's MCP routes
    timed,        \* one SSE call against the clock
    block,        \* parseSseChunk applied to one block
    handoff,      \* the event stream between the two waits of sendViaSse
    store         \* the chat store of the web app and the chat page on it

callVars == <<build, op, transport, hasHandshakeUrl, pc, nextId, payload, warnings, sent,
              attempt, postError, answer, buffer, delivered, streamState, connectReply,
              postReply, endpointEvent, messageEvent, readerCancelled, aborted, rpc, outcome>>

\* The state of the functions studied on their own; a call of the client as a
\* whole leaves it alone.
unitVars == <<parser, race, mapping, calls, repeat, worker, timed, block, handoff, store>>

vars == <<callVars, unitVars>>

ParserIdle == [input |-> <<>>, consumed |-> 0, text |-> <<>>, events |-> <<>>,
               eof |-> FALSE, nulls |-> 0]
RaceIdle == [state |-> "idle"]
MappingIdle == [state |-> "idle"]
CallsIdle == [issued |-> 0]
RepeatIdle == [pc |-> "idle"]
WorkerIdle == [pc |-> "idle"]

TimedIdle == [outcome |-> "idle"]
BlockIdle == [state |-> "idle"]
HandoffIdle == [pc |-> "idle"]
StoreIdle == [pc |-> "idle"]

config == <<build, op, transport, hasHandshakeUrl>>
sseVars == <<buffer, delivered, streamState, connectReply, postReply, endpointEvent,
             messageEvent, readerCancelled, aborted>>
httpVars == <<warnings, attempt, postError, answer>>

NoReply == [k |-> "none", status |-> 0, body |-> "none", json |-> NoResp]

\* listTools passes its warnings array to sendRpc; callTool passes none, and
\* sendRpc hands it to sendViaHttp only.
HasWarnings == op = "listTools"

Method == IF op = "listTools" THEN "tools/list" ELSE "tools/call"

Request(verb, url, path, method, id, session) ==
    [verb |-> verb, url |-> url, path |-> path, method |-> method, id |-> id,
     session |-> session]

NoValue == [kind |-> "none", tools |-> "none", warnings |-> <<>>,
            warningsDefined |-> FALSE, result |-> "undefined"]

\* The locals of a call that has not started yet.
CallStart ==
    /\ pc = "start"
    /\ nextId = 1
    /\ payload = [id |-> 0, method |-> ""]
    /\ warnings = <<>>
    /\ sent = <<>>
    /\ attempt = 0
    /\ postError = NoError
    /\ answer = NoReply
    /\ buffer = <<>>
    /\ delivered = 0
    /\ streamState = "none"
    /\ connectReply = [k |-> "none", status |-> 0]
    /\ postReply = [k |-> "none", status |-> 0]
    /\ endpointEvent = NoEvent
    /\ messageEvent = NoEvent
    /\ readerCancelled = 0
    /\ aborted = 0
    /\ rpc = Pending
    /\ outcome = [state |-> "pending", val |-> NoValue, err |-> NoError]

Init ==
    /\ build \in Builds
    /\ op \in Ops
    /\ transport \in Transports
    /\ hasHandshakeUrl \in BOOLEAN
    /\ CallStart
    /\ parser = ParserIdle
    /\ race = RaceIdle
    /\ mapping = MappingIdle
    /\ calls = CallsIdle
    /\ repeat = RepeatIdle
    /\ worker = WorkerIdle
    /\ timed = TimedIdle
    /\ block = BlockIdle
    /\ handoff = HandoffIdle
    /\ store = StoreIdle

\* listTools / callTool up to the call of sendRpc: createRpcPayload takes a
\* fresh request id, sendRpc dispatches on config.transport.
SendRpc ==
    /\ pc = "start"
    /\ payload' = [id |-> nextId, method |-> Method]
    /\ nextId' = nextId + 1
    /\ pc' = IF transport = "http"
             THEN (IF hasHandshakeUrl THEN "handshake" ELSE "initialize")
             ELSE "sseConnect"
    /\ UNCHANGED <<config, unitVars, httpVars, sseVars, sent, rpc, outcome>>

AttemptInitialize_ReusesPayloadId ==
    /\ pc \in {"handshake", "initialize"}
    /\ \E reply \in Replies :
        LET targetUrl == IF pc = "handshake" THEN "handshakeUrl" ELSE "url"
            label == IF pc = "handshake" THEN "Handshake" ELSE "Initialize"
            r == PostJsonRpc(build, reply, payload.id)
        IN  /\ sent' = Append(sent, Request("POST", targetUrl, "", "initialize", payload.id, ""))
            /\ warnings' = IF r.state = "thrown"
                           THEN PushWarning(warnings, HasWarnings,
                                            InitializeWarning(label, targetUrl, r.err))
                           ELSE warnings
            /\ pc' = IF r = Hung THEN "hung" ELSE NextAfterInitialize(pc, r)
    /\ nextId' = nextId + 1
    /\ UNCHANGED <<config, unitVars, payload, attempt, postError, answer, sseVars, rpc, outcome>>

\* attemptInitialize(handshakeUrl, 'Handshake') / attemptInitialize(config.url,
\* 'Initialize'): one `initialize` POST with a fresh id; every failure becomes
\* a warning.  (The `!targetUrl` guard never holds: config.url is a URL that
\* parses, and handshakeUrl is tried only when it is set.)
AttemptInitialize ==
    /\ pc \in {"handshake", "initialize"}
    /\ \E reply \in Replies :
        LET targetUrl == IF pc = "handshake" THEN "handshakeUrl" ELSE "url"
            label == IF pc = "handshake" THEN "Handshake" ELSE "Initialize"
            r == PostJsonRpc(build, reply, nextId)
        IN  /\ sent' = Append(sent, Request("POST", targetUrl, "", "initialize", nextId, ""))
            /\ warnings' = IF r.state = "thrown"
                           THEN PushWarning(warnings, HasWarnings,
                                            InitializeWarning(label, targetUrl, r.err))
                           ELSE warnings
            /\ pc' = IF r = Hung THEN "hung" ELSE NextAfterInitialize(pc, r)
    /\ nextId' = nextId + 1
    /\ UNCHANGED <<config, unitVars, payload, attempt, postError, answer, sseVars, rpc, outcome>>

\* The primary POST of sendViaHttp and its catch block.
PrimaryPost ==
    /\ pc = "post"
    /\ \E reply \in Replies :
        LET r == PostJsonRpc(build, reply, payload.id)
            e == r.err
            fallback == r.state = "thrown" /\ ShouldFallback(build, e)
            tail == CatchTail(build, payload.method, attempt, e)
        IN  /\ sent' = Append(sent, Request("POST", "url", "", payload.method, payload.id, ""))
            /\ postError' = e
            /\ answer' = reply
            /\ IF r = Hung
               THEN /\ pc' = "hung"
                    /\ UNCHANGED <<rpc, warnings, attempt>>
               ELSE IF r.state = "returned"
               THEN /\ rpc' = r
                    /\ pc' = "complete"
                    /\ UNCHANGED <<warnings, attempt>>
               ELSE IF fallback
               THEN /\ warnings' = FallbackWarnings(warnings, HasWarnings, e)
                    /\ pc' = "get"
                    /\ UNCHANGED <<rpc, attempt>>
               ELSE IF tail.retry
               THEN /\ attempt' = attempt + 1
                    /\ pc' = "post"
                    /\ UNCHANGED <<rpc, warnings>>
               ELSE /\ rpc' = Thrown(tail.err)
                    /\ pc' = "complete"
                    /\ UNCHANGED <<warnings, attempt>>
    /\ UNCHANGED <<config, unitVars, nextId, payload, sseVars, outcome>>

\* executeGetFallback of part_007: the GET with the payload in the query, and
\* the rest of the catch block with `error = getError`.
GetFallback ==
    /\ pc = "get"
    /\ \E reply \in Replies :
        LET r == GetJsonRpc(reply, payload.id)
            tail == CatchTail(build, payload.method, attempt,
                              ErrorAfterFallback(postError, r.err))
        IN  /\ sent' = Append(sent, Request("GET", "url", "", payload.method, payload.id, ""))
            /\ answer' = reply
            /\ IF r = Hung
               THEN /\ pc' = "hung"
                    /\ UNCHANGED <<rpc, attempt>>
               ELSE IF r.state = "returned"
               THEN /\ rpc' = r
                    /\ pc' = "complete"
                    /\ UNCHANGED attempt
               ELSE IF tail.retry
               THEN /\ attempt' = attempt + 1
                    /\ pc' = "post"
                    /\ UNCHANGED rpc
               ELSE /\ rpc' = Thrown(tail.err)
                    /\ pc' = "complete"
                    /\ UNCHANGED attempt
    /\ UNCHANGED <<config, unitVars, nextId, payload, warnings, postError, sseVars, outcome>>

\* ------------------------------------------------------------ sendViaSse
\* A server's behaviour on the GET that opens the event stream.
ConnectReplies ==
    [k : {"network", "timeout"}, status : {0}]
    \cup [k : {"status"}, status : FailStatuses]
    \cup [k : {"nobody", "stream"}, status : {200}]

\* index.ts opens the stream at `explicitHandshakeUrl ?? config.url`,
\* part_007 always at config.url.
StreamUrl == IF build = "index" /\ hasHandshakeUrl THEN "handshakeUrl" ELSE "url"

ConnectTimeoutMessage ==
    IF build = "index" THEN "Handshake timed out" ELSE "sse_connection_timeout"

ConnectFailure_OneKind(status) ==
    McpStatusError("Handshake failed with status", "handshake_failed", status)

\* The error thrown when the response to the GET is not ok or has no body.
ConnectFailure(status) ==
    IF build = "index"
    THEN McpStatusError("Handshake failed with status", "handshake_failed", status)
    ELSE McpStatusError("SSE connection failed with status", "sse_connection_failed", status)

\* The GET with Accept: text/event-stream under withTimeout, and the check of
\* the response.
SseConnect ==
    /\ pc = "sseConnect"
    /\ sent' = Append(sent, Request("GET", StreamUrl, "", "", 0, ""))
    /\ \E reply \in ConnectReplies :
        /\ connectReply' = reply
        /\ CASE reply.k = "network" ->
                   /\ rpc' = Thrown(RawError)
                   /\ pc' = "complete"
                   /\ UNCHANGED <<aborted, streamState>>
             [] reply.k = "timeout" ->
                   /\ rpc' = Thrown(TimeoutError(ConnectTimeoutMessage))
                   /\ pc' = "complete"
                   /\ UNCHANGED <<aborted, streamState>>
             [] reply.k \in {"status", "nobody"} ->
                   /\ aborted' = aborted + 1
                   /\ rpc' = Thrown(ConnectFailure(reply.status))
                   /\ pc' = "complete"
                   /\ UNCHANGED streamState
             [] OTHER ->
                   /\ streamState' = "open"
                   /\ pc' = IF build = "index" THEN "sseEndpoint" ELSE "ssePost"
                   /\ UNCHANGED <<aborted, rpc>>
    /\ UNCHANGED <<config, unitVars, nextId, payload, httpVars, buffer, delivered,
                   postReply, endpointEvent, messageEvent, readerCancelled, outcome>>

\* index.ts: one iteration of waitForEvent('endpoint') and, once it returns,
\* the check of the event's data and buildPostUrl.
SseWaitForEndpoint ==
    /\ pc = "sseEndpoint"
    /\ \E w \in waitFor(buffer, delivered, streamState) :
        /\ buffer' = w.buffer
        /\ delivered' = w.delivered
        /\ streamState' = w.stream
        /\ IF WaitForVerdict(w.event, IsNamed(w.event, "endpoint")) = "continue"
           THEN UNCHANGED <<pc, rpc, endpointEvent>>
           ELSE /\ endpointEvent' =
                     IF WaitForVerdict(w.event, IsNamed(w.event, "endpoint")) = "null"
                     THEN NoEvent ELSE w.event
                /\ IF endpointEvent' = NoEvent \/ endpointEvent'.dk = "empty"
                   THEN /\ rpc' = Thrown(McpClientError(
                                   "Handshake did not return a post endpoint",
                                   "handshake_failed"))
                        /\ pc' = "sseFinally"
                   ELSE IF endpointEvent'.dk = "badpath"
                   THEN /\ rpc' = Thrown(McpClientError(
                                   "Invalid post endpoint returned by server",
                                   "invalid_endpoint"))
                        /\ pc' = "sseFinally"
                   ELSE /\ pc' = "ssePost"
                        /\ UNCHANGED rpc
    /\ UNCHANGED <<config, unitVars, nextId, payload, httpVars, sent, connectReply,
                   postReply, messageEvent, readerCancelled, aborted, outcome>>

\* The POST of the JSON-RPC payload.  index.ts posts to the resolved endpoint
\* with the session header and looks at the status only; part_007 calls
\* postJsonRpc(config.url, ...) and drops what it returns.
SsePost ==
    /\ pc = "ssePost"
    /\ \E reply \in Replies :
        LET r == IF build = "index"
                 THEN CASE reply.k = "network" -> Thrown(RawError)
                        [] reply.k = "timeout" ->
                              Thrown(TimeoutError("RPC request timed out"))
                        [] reply.k = "status" ->
                              Thrown(McpStatusError("RPC request failed with status",
                                                    "rpc_failed", reply.status))
                        [] OTHER -> Returned(NoResp)
                 ELSE PostJsonRpc(build, reply, payload.id)
        IN  /\ sent' = Append(sent,
                  IF build = "index"
                  THEN Request("POST", StreamUrl, EndpointPath(endpointEvent), payload.method,
                               payload.id, endpointEvent.session)
                  ELSE Request("POST", "url", "", payload.method, payload.id, ""))
            /\ postReply' = [k |-> reply.k, status |-> reply.status]
            /\ IF r = Hung
               THEN /\ pc' = "hung"
                    /\ UNCHANGED rpc
               ELSE IF r.state = "thrown"
               THEN /\ rpc' = r
                    /\ pc' = "sseFinally"
               ELSE /\ pc' = "sseMessage"
                    /\ UNCHANGED rpc
    /\ UNCHANGED <<config, unitVars, nextId, payload, httpVars, buffer, delivered,
                   streamState, connectReply, endpointEvent, messageEvent,
                   readerCancelled, aborted, outcome>>

\* One iteration of waitForMessage(payload.id) and, once it returns, the
\* parse of the event and the check of its `error` member.
SseWaitForMessage ==
    /\ pc = "sseMessage"
    /\ \E w \in waitFor(buffer, delivered, streamState) :
        /\ buffer' = w.buffer
        /\ delivered' = w.delivered
        /\ streamState' = w.stream
        /\ IF WaitForVerdict(w.event, IsMessageFor(w.event, payload.id)) = "continue"
           THEN UNCHANGED <<pc, rpc, messageEvent>>
           ELSE /\ messageEvent' =
                     IF WaitForVerdict(w.event, IsMessageFor(w.event, payload.id)) = "null"
                     THEN NoEvent ELSE w.event
                /\ pc' = "sseFinally"
                /\ rpc' =
                     IF WaitForVerdict(w.event, IsMessageFor(w.event, payload.id)) = "null"
                     THEN Thrown(McpClientError("No response message received",
                                                "no_response"))
                     ELSE IF safelyParseJson(w.event).kind = "null"
                     THEN Thrown(McpClientError("Failed to parse response payload",
                                                "invalid_json"))
                     ELSE IF safelyParseJson(w.event).error
                     THEN Thrown(McpClientError("MCP error response", "mcp_error"))
                     ELSE Returned(safelyParseJson(w.event))
    /\ UNCHANGED <<config, unitVars, nextId, payload, httpVars, sent, connectReply,
                   postReply, endpointEvent, readerCancelled, aborted, outcome>>

\* The finally block: `await stream.close()` (a rejection is swallowed), then
\* controller.abort().  reader.cancel() is awaited without a deadline: when it
\* never settles the call stays in the finally block and abort() is not
\* reached.
SseFinally ==
    /\ pc = "sseFinally"
    /\ readerCancelled' = readerCancelled + 1
    /\ \E cancelSettles \in BOOLEAN :
        IF cancelSettles
        THEN /\ aborted' = aborted + 1
             /\ pc' = "complete"
        ELSE /\ pc' = "hung"
             /\ UNCHANGED aborted
    /\ UNCHANGED <<config, unitVars, nextId, payload, httpVars, sent, buffer, delivered,
                   streamState, connectReply, postReply, endpointEvent, messageEvent, rpc,
                   outcome>>

\* ------------------------------------------------- listTools / callTool
\* The tools array listTools returns for a response.
NormaliseTools(response) ==
    IF response.result = "toolsArray" THEN "mapped" ELSE "empty"

ListToolsValue(response, ws) ==
    [kind |-> "list", tools |-> NormaliseTools(response), warnings |-> ws,
     warningsDefined |-> Len(ws) # 0, result |-> "undefined"]

CallToolValue(response) ==
    [kind |-> "call", tools |-> "none", warnings |-> <<>>,
     warningsDefined |-> FALSE, result |-> response.result]

Settle_ReturnsFailure(o, r, ws) ==
    IF r.state = "thrown"
    THEN [state |-> "returned",
          val |-> [kind |-> "failure", tools |-> "none", warnings |-> ws,
                   warningsDefined |-> Len(ws) # 0, result |-> "undefined"],
          err |-> NoError]
    ELSE [state |-> "returned",
          val |-> IF o = "listTools" THEN ListToolsValue(r.val, ws)
                  ELSE CallToolValue(r.val),
          err |-> NoError]

\* What listTools / callTool does with the settlement of sendRpc: a rejection
\* propagates to the caller; reading `.result` of a null response raises a
\* TypeError; otherwise the value is built.
Settle(o, r, ws) ==
    IF r.state = "thrown"
    THEN [state |-> "thrown", val |-> NoValue, err |-> r.err]
    ELSE IF r.val.kind = "null"
    THEN [state |-> "thrown", val |-> NoValue, err |-> TypeError]
    ELSE [state |-> "returned",
          val |-> IF o = "listTools" THEN ListToolsValue(r.val, ws)
                  ELSE CallToolValue(r.val),
          err |-> NoError]

Complete ==
    /\ pc = "complete"
    /\ outcome' = Settle(op, rpc, warnings)
    /\ pc' = "done"
    /\ UNCHANGED <<config, unitVars, nextId, payload, httpVars, sseVars, sent, rpc>>

Next ==
    \/ SendRpc
    \/ AttemptInitialize
    \/ PrimaryPost
    \/ GetFallback
    \/ SseConnect
    \/ SseWaitForEndpoint
    \/ SsePost
    \/ SseWaitForMessage
    \/ SseFinally
    \/ Complete

Spec == Init /\ [][Next]_vars

\* Every step of a call is the continuation of an await that has settled: the
\* event loop runs it, so a call that can take a step eventually takes one.
\* A call blocked in an await that never settles (pc = "hung") has no step.
FairSpec == Spec /\ WF_vars(Next)

\* ------------------------------------------------- SseStream, character level
\* The text of a stream as a sequence of characters.  "CR" and "LF" are \r
\* and \n; "data:" and "event:" stand for those field prefixes, "a" for any
\* other text.
MaxStream == 5      \* characters of the stream the parser is run on
MaxEndReads == 2    \* times nextEvent is followed until it has returned null

StreamChars == {"CR", "LF", "data:", "event:", "a"}

Streams == UNION {[1..n -> StreamChars] : n \in 0..MaxStream}

\* String.replace(/\r\n/g, '\n'), applied to one decoded chunk.
RECURSIVE ReplaceCrLf(_)
ReplaceCrLf(s) ==
    IF Len(s) < 2 THEN s
    ELSE IF s[1] = "CR" /\ s[2] = "LF"
    THEN <<"LF">> \o ReplaceCrLf(SubSeq(s, 3, Len(s)))
    ELSE <<s[1]>> \o ReplaceCrLf(Tail(s))

\* buffer.indexOf('\n\n'), counted from 1; 0 when there is none.
IndexOfDelimiter(s) ==
    IF \E i \in 1..(Len(s) - 1) : s[i] = "LF" /\ s[i + 1] = "LF"
    THEN CHOOSE i \in 1..(Len(s) - 1) :
            /\ s[i] = "LF" /\ s[i + 1] = "LF"
            /\ \A j \in 1..(i - 1) : ~(s[j] = "LF" /\ s[j + 1] = "LF")
    ELSE 0

\* chunk.split('\n')
RECURSIVE SplitLines(_)
SplitLines(s) ==
    IF \A i \in 1..Len(s) : s[i] # "LF" THEN <<s>>
    ELSE LET i == CHOOSE i \in 1..Len(s) :
                     s[i] = "LF" /\ \A j \in 1..(i - 1) : s[j] # "LF"
         IN  <<SubSeq(s, 1, i - 1)>> \o SplitLines(SubSeq(s, i + 1, Len(s)))

\* The characters trim() and trimEnd() remove.
IsWhiteSpace(c) == c \in {"CR", "LF", "SP"}

RECURSIVE TrimEnd(_)
TrimEnd(s) ==
    IF s # <<>> /\ IsWhiteSpace(s[Len(s)]) THEN TrimEnd(SubSeq(s, 1, Len(s) - 1)) ELSE s

RECURSIVE TrimStart(_)
TrimStart(s) ==
    IF s # <<>> /\ IsWhiteSpace(s[1]) THEN TrimStart(Tail(s)) ELSE s

Trim(s) == TrimStart(TrimEnd(s))

RECURSIVE JoinLines_NoSeparator(_)
JoinLines_NoSeparator(ls) ==
    IF ls = <<>> THEN <<>> ELSE ls[1] \o JoinLines_NoSeparator(Tail(ls))

\* dataLines.join('\n')
RECURSIVE JoinLines(_)
JoinLines(ls) ==
    IF ls = <<>> THEN <<>>
    ELSE IF Len(ls) = 1 THEN ls[1]
    ELSE ls[1] \o <<"LF">> \o JoinLines(Tail(ls))

StartsWith(line, prefix) == line # <<>> /\ line[1] = prefix

\* What parseSseChunk returns when it returns null.
NullEvent == [event |-> <<"null">>, data |-> <<>>]

\* parseSseChunk: the last `event:` line names the event ('message' without
\* one), the `data:` lines are joined with \n, every other line is skipped.
parseSseChunk(chunk) ==
    LET split == SplitLines(chunk)
        lines == [i \in 1..Len(split) |-> TrimEnd(split[i])]
        eventLines == SelectSeq(lines, LAMBDA l : StartsWith(l, "event:"))
        dataOf == SelectSeq(lines, LAMBDA l : StartsWith(l, "data:"))
        dataLines == [i \in 1..Len(dataOf) |-> Trim(Tail(dataOf[i]))]
        event == IF eventLines = <<>> THEN <<"message">>
                 ELSE Trim(Tail(eventLines[Len(eventLines)]))
    IN  IF dataLines = <<>> /\ event = <<>>
        THEN NullEvent
        ELSE [event |-> event, data |-> JoinLines(dataLines)]

\* An SseStream over a reader that will deliver `input`.
ParserInit ==
    /\ build = "index"
    /\ op = "listTools"
    /\ transport = "sse"
    /\ hasHandshakeUrl = FALSE
    /\ CallStart
    /\ parser \in {[input |-> s, consumed |-> 0, text |-> <<>>, events |-> <<>>,
                    eof |-> FALSE, nulls |-> 0] : s \in Streams}
    /\ race = RaceIdle
    /\ mapping = MappingIdle
    /\ calls = CallsIdle
    /\ repeat = RepeatIdle
    /\ worker = WorkerIdle
    /\ timed = TimedIdle
    /\ block = BlockIdle
    /\ handoff = HandoffIdle
    /\ store = StoreIdle

\* nextEvent, first branch: the buffer holds a delimiter; the block before it
\* is cut off and parsed, and returned unless the parse gives null.
ParserExtract ==
    /\ IndexOfDelimiter(parser.text) # 0
    /\ LET idx == IndexOfDelimiter(parser.text)
           event == parseSseChunk(SubSeq(parser.text, 1, idx - 1))
       IN  parser' = [parser EXCEPT
                        !.text = SubSeq(parser.text, idx + 2, Len(parser.text)),
                        !.events = IF event = NullEvent THEN @ ELSE Append(@, event)]
    /\ UNCHANGED <<callVars, race, mapping, calls, repeat, worker, timed, block, handoff, store>>

\* nextEvent, reader.read() delivers a chunk: any non-empty prefix of what the
\* stream still holds.  The chunk is normalised on its own and appended.
ParserRead ==
    /\ IndexOfDelimiter(parser.text) = 0
    /\ ~parser.eof
    /\ \E k \in 1..(Len(parser.input) - parser.consumed) :
        parser' = [parser EXCEPT
                     !.consumed = @ + k,
                     !.text = @ \o ReplaceCrLf(SubSeq(parser.input, parser.consumed + 1,
                                                      parser.consumed + k))]
    /\ UNCHANGED <<callVars, race, mapping, calls, repeat, worker, timed, block, handoff, store>>

ParserDone_KeepsBuffer ==
    /\ IndexOfDelimiter(parser.text) = 0
    /\ parser.consumed = Len(parser.input)
    /\ parser.nulls < MaxEndReads
    /\ LET event == IF parser.text = <<>> THEN NullEvent ELSE parseSseChunk(parser.text)
       IN  parser' = [parser EXCEPT
                        !.eof = TRUE,
                        !.events = IF event = NullEvent THEN @ ELSE Append(@, event),
                        !.nulls = IF event = NullEvent THEN @ + 1 ELSE @]
    /\ UNCHANGED <<callVars, race, mapping, calls, repeat, worker, timed, block, handoff, store>>

\* nextEvent, reader.read() reports done, as it does at the end of the stream
\* and on every read after it: what is left in the buffer is parsed as one
\* block and the buffer is emptied; with an empty buffer, or a block that
\* parses to null, nextEvent returns null.
ParserDone ==
    /\ IndexOfDelimiter(parser.text) = 0
    /\ parser.consumed = Len(parser.input)
    /\ parser.nulls < MaxEndReads
    /\ LET event == IF parser.text = <<>> THEN NullEvent ELSE parseSseChunk(parser.text)
       IN  parser' = [parser EXCEPT
                        !.text = <<>>,
                        !.eof = TRUE,
                        !.events = IF event = NullEvent THEN @ ELSE Append(@, event),
                        !.nulls = IF event = NullEvent THEN @ + 1 ELSE @]
    /\ UNCHANGED <<callVars, race, mapping, calls, repeat, worker, timed, block, handoff, store>>

ParserNext ==
    \/ ParserExtract
    \/ ParserRead
    \/ ParserDone

ParserSpec == ParserInit /\ [][ParserNext]_vars

\* parseSseChunk on its own: one block of text, as nextEvent cuts it out of
\* the buffer (it holds no \n\n), is parsed once.
MaxBlock == 5       \* characters of the block

BlockChars == {"CR", "LF", "SP", ":", "data:", "event:", "a", "b"}

Blocks ==
    {s \in UNION {[1..n -> BlockChars] : n \in 0..MaxBlock} : IndexOfDelimiter(s) = 0}

BlockInit ==
    /\ build = "index"
    /\ op = "listTools"
    /\ transport = "sse"
    /\ hasHandshakeUrl = FALSE
    /\ CallStart
    /\ parser = ParserIdle
    /\ race = RaceIdle
    /\ mapping = MappingIdle
    /\ calls = CallsIdle
    /\ repeat = RepeatIdle
    /\ worker = WorkerIdle
    /\ timed = TimedIdle
    /\ block \in [state : {"cut"}, chunk : Blocks, event : {NullEvent}]
    /\ handoff = HandoffIdle
    /\ store = StoreIdle

BlockParse ==
    /\ block.state = "cut"
    /\ block' = [block EXCEPT !.state = "parsed", !.event = parseSseChunk(block.chunk)]
    /\ UNCHANGED <<callVars, parser, race, mapping, calls, repeat, worker, timed, handoff, store>>

BlockNext == BlockParse

BlockSpec == BlockInit /\ [][BlockNext]_vars

\* ------------------------------------- sendViaSse between its two waits
\* The event stream of one SSE call with the server writing while the client
\* waits for the endpoint event, posts, and waits for the message: `wire` is
\* what the server has written and reader.read() has not yet returned,
\* `buffer` is SseStream.buffer.
HandoffEndpoint == [event |-> "endpoint", dk |-> "path", session |-> "", json |-> NoResp]

HandoffMessage(id) ==
    [event |-> "message", dk |-> "json", session |-> "",
     json |-> [kind |-> "object", jsonrpc |-> "2.0", id |-> id, error |-> FALSE,
               result |-> "value"]]

HandoffPing == [event |-> "ping", dk |-> "empty", session |-> "", json |-> NoResp]

HandoffEvents == {HandoffEndpoint, HandoffMessage(1), HandoffMessage(2), HandoffPing}

\* What the server writes at once: one or two complete event blocks.
HandoffChunks(room) ==
    {<<e>> : e \in IF room >= 1 THEN HandoffEvents ELSE {}}
    \cup {<<e1, e2>> : e1 \in (IF room >= 2 THEN HandoffEvents ELSE {}), e2 \in HandoffEvents}

\* The chunk holds a message for the id behind an endpoint event.
MessageAfterEndpoint(hadEndpoint, c, id) ==
    \E j \in 1..Len(c) :
        /\ IsMessageFor(c[j], id)
        /\ hadEndpoint \/ \E i \in 1..(j - 1) : IsNamed(c[i], "endpoint")

HandoffInit ==
    /\ build = "index"
    /\ op = "listTools"
    /\ transport = "sse"
    /\ hasHandshakeUrl = FALSE
    /\ CallStart
    /\ parser = ParserIdle
    /\ race = RaceIdle
    /\ mapping = MappingIdle
    /\ calls = CallsIdle
    /\ repeat = RepeatIdle
    /\ worker = WorkerIdle
    /\ timed = TimedIdle
    /\ block = BlockIdle
    /\ store = StoreIdle
    /\ handoff = [pc |-> "endpoint", id |-> 1, wire |-> <<>>, buffer |-> <<>>,
                  written |-> 0, source |-> "open", endpointWritten |-> FALSE,
                  owed |-> FALSE, owedAt |-> "", owedWithEndpoint |-> FALSE,
                  stage |-> "", cause |-> "", result |-> NoEvent]

\* The server enqueues a chunk on the response body.
HandoffServerWrite ==
    /\ handoff.pc \in {"endpoint", "post", "message"}
    /\ handoff.source = "open"
    /\ \E c \in HandoffChunks(MaxEvents - handoff.written) :
        LET owes == MessageAfterEndpoint(handoff.endpointWritten, c, handoff.id)
            first == owes /\ ~handoff.owed
        IN  handoff' = [handoff EXCEPT
                !.wire = Append(@, c),
                !.written = @ + Len(c),
                !.endpointWritten = @ \/ \E i \in 1..Len(c) : IsNamed(c[i], "endpoint"),
                !.owed = @ \/ owes,
                !.owedAt = IF first THEN handoff.pc ELSE @,
                !.owedWithEndpoint = IF first THEN ~handoff.endpointWritten ELSE @]
    /\ UNCHANGED <<callVars, parser, race, mapping, calls, repeat, worker, timed, block, store>>

\* The response body ends, or fails: a failed stream drops the chunks that
\* were not yet read.
HandoffServerEnd ==
    /\ handoff.pc \in {"endpoint", "post", "message"}
    /\ handoff.source = "open"
    /\ \E how \in {"ended", "errored"} :
        handoff' = [handoff EXCEPT !.source = how,
                                   !.wire = IF how = "errored" THEN <<>> ELSE @]
    /\ UNCHANGED <<callVars, parser, race, mapping, calls, repeat, worker, timed, block, store>>

HandoffResult(evt, buf, wire, cause) ==
    [event |-> evt, buffer |-> buf, wire |-> wire, cause |-> cause]

\* One iteration of waitFor on this stream: the deadline has passed, or
\* nextEvent returns the next block of the buffer, or of the chunk
\* reader.read() returns, or null at the end of the stream; a rejected read
\* is caught and gives null.  With nothing to read the read stays pending.
HandoffWaitFor(h) ==
    {HandoffResult(NoEvent, h.buffer, h.wire, "deadline")}
    \cup IF h.buffer # <<>>
         THEN {HandoffResult(Head(h.buffer), Tail(h.buffer), h.wire, "")}
         ELSE IF h.wire # <<>>
         THEN {HandoffResult(Head(Head(h.wire)), Tail(Head(h.wire)), Tail(h.wire), "")}
         ELSE IF h.source = "open" THEN {}
         ELSE {HandoffResult(NoEvent, <<>>, <<>>, h.source)}

\* waitForEvent('endpoint') and the check of its data.
HandoffWaitForEndpoint ==
    /\ handoff.pc = "endpoint"
    /\ \E w \in HandoffWaitFor(handoff) :
        LET verdict == WaitForVerdict(w.event, IsNamed(w.event, "endpoint"))
        IN  handoff' = [handoff EXCEPT
                !.buffer = w.buffer,
                !.wire = w.wire,
                !.pc = CASE verdict = "continue" -> "endpoint"
                         [] verdict = "event" -> "post"
                         [] OTHER -> "done",
                !.stage = IF verdict = "null" THEN "endpoint" ELSE @,
                !.cause = IF verdict = "null" THEN w.cause ELSE @]
    /\ UNCHANGED <<callVars, parser, race, mapping, calls, repeat, worker, timed, block, store>>

HandoffPost_NewStream ==
    /\ handoff.pc = "post"
    /\ \E accepted \in BOOLEAN :
        handoff' = [handoff EXCEPT
            !.buffer = <<>>,
            !.pc = IF accepted THEN "message" ELSE "done",
            !.stage = IF accepted THEN @ ELSE "post",
            !.cause = IF accepted THEN @ ELSE "post"]
    /\ UNCHANGED <<callVars, parser, race, mapping, calls, repeat, worker, timed, block, store>>

\* The POST of the payload settles: accepted (2xx or 202), or not.  The
\* SseStream is not touched meanwhile.
HandoffPost ==
    /\ handoff.pc = "post"
    /\ \E accepted \in BOOLEAN :
        handoff' = [handoff EXCEPT
            !.pc = IF accepted THEN "message" ELSE "done",
            !.stage = IF accepted THEN @ ELSE "post",
            !.cause = IF accepted THEN @ ELSE "post"]
    /\ UNCHANGED <<callVars, parser, race, mapping, calls, repeat, worker, timed, block, store>>

\* waitForMessage(payload.id).
HandoffWaitForMessage ==
    /\ handoff.pc = "message"
    /\ \E w \in HandoffWaitFor(handoff) :
        LET verdict == WaitForVerdict(w.event, IsMessageFor(w.event, handoff.id))
        IN  handoff' = [handoff EXCEPT
                !.buffer = w.buffer,
                !.wire = w.wire,
                !.pc = IF verdict = "continue" THEN "message" ELSE "done",
                !.stage = IF verdict = "continue" THEN @ ELSE "message",
                !.cause = IF verdict = "null" THEN w.cause ELSE @,
                !.result = IF verdict = "event" THEN w.event ELSE @]
    /\ UNCHANGED <<callVars, parser, race, mapping, calls, repeat, worker, timed, block, store>>

HandoffNext ==
    \/ HandoffServerWrite
    \/ HandoffServerEnd
    \/ HandoffWaitForEndpoint
    \/ HandoffPost
    \/ HandoffWaitForMessage

HandoffSpec == HandoffInit /\ [][HandoffNext]_vars

\* ------------------------------------------ the chat store and the chat page
MaxCustom == 1      \* custom servers in the list at once
MaxSends == 1       \* chat requests the page sends

\* DEFAULT_SERVERS, by id; a built-in server has no isCustom member.
DEFAULT_SERVERS ==
    <<[id |-> "mock-demo-http", isCustom |-> FALSE],
      [id |-> "deepwiki-http", isCustom |-> FALSE],
      [id |-> "llama-http", isCustom |-> FALSE]>>

DefaultIds == {DEFAULT_SERVERS[i].id : i \in 1..Len(DEFAULT_SERVERS)}

\* The ids addServer may be given or may generate: a new one, or one a
\* server of the list already has.
NewServerIds == {"custom-1", "mock-demo-http"}

ServerIds == DefaultIds \cup NewServerIds

\* Tool names a server lists, and the names a tool command may carry.
ListedTools == {"echo"}
CommandNames == {"echo", "sum"}

\* The value of toolsByServer[id] / enabledTools[id]: no such key, or a list
\* of tool names.
NoList == [present |-> FALSE, names |-> {}]
ListOf(names) == [present |-> TRUE, names |-> names]

\* What the user types: plain text, a tool command parseToolCommand accepts
\* (with the name it finds), or one it rejects.
ChatInputs ==
    {[slash |-> FALSE, parses |-> FALSE, name |-> ""],
     [slash |-> TRUE, parses |-> FALSE, name |-> ""]}
    \cup [slash : {TRUE}, parses : {TRUE}, name : CommandNames]

HasServer(s, serverId) == \E i \in 1..Len(s.servers) : s.servers[i].id = serverId

setToolsForServer(s, serverId, tools) ==
    [s EXCEPT !.toolsByServer[serverId] = ListOf(tools),
              !.enabledTools[serverId] = ListOf(tools)]

toggleTool(s, serverId, toolName) ==
    LET current == s.enabledTools[serverId].names
    IN  [s EXCEPT !.enabledTools[serverId] =
            ListOf(IF toolName \in current THEN current \ {toolName}
                   ELSE current \cup {toolName})]

enableAllTools(s, serverId) ==
    [s EXCEPT !.enabledTools[serverId] = ListOf(s.toolsByServer[serverId].names)]

addServer(s, id) ==
    [s EXCEPT !.servers = Append(@, [id |-> id, isCustom |-> TRUE]),
              !.selectedServerId = id]

removeServer_AnyServer(s, serverId) ==
    LET Kept(server) == server.id # serverId
        remaining == SelectSeq(s.servers, Kept)
    IN  [s EXCEPT !.servers = remaining,
                  !.selectedServerId =
                      IF @ # serverId THEN @
                      ELSE IF remaining # <<>> THEN remaining[1].id
                      ELSE DEFAULT_SERVERS[1].id,
                  !.toolsByServer[serverId] = NoList,
                  !.enabledTools[serverId] = NoList]

removeServer(s, serverId) ==
    LET Kept(server) == server.id # serverId \/ ~server.isCustom
        remaining == SelectSeq(s.servers, Kept)
    IN  [s EXCEPT !.servers = remaining,
                  !.selectedServerId =
                      IF @ # serverId THEN @
                      ELSE IF remaining # <<>> THEN remaining[1].id
                      ELSE DEFAULT_SERVERS[1].id,
                  !.toolsByServer[serverId] = NoList,
                  !.enabledTools[serverId] = NoList]

setSelectedServer(s, serverId) ==
    IF HasServer(s, serverId) THEN [s EXCEPT !.selectedServerId = serverId] ELSE s

\* The set handleSend looks the tool name up in.
EnabledForSend_Loaded(s) == s.toolsByServer[s.selectedServerId].names

EnabledForSend(s) == s.enabledTools[s.selectedServerId].names

\* handleSend up to chatMutation.mutateAsync: the three early returns, then
\* the user's message is added, typing is set and the request goes out.
handleSend(s, input) ==
    IF ~HasServer(s, s.selectedServerId) THEN s
    ELSE IF input.slash /\ ~input.parses THEN s
    ELSE IF input.slash /\ input.name \notin EnabledForSend(s) THEN s
    ELSE [s EXCEPT !.messages = @ + 1,
                   !.typing = TRUE,
                   !.requests = Append(@, [maybeTool |-> input.name])]

StoreInit ==
    /\ build = "index"
    /\ op = "listTools"
    /\ transport = "http"
    /\ hasHandshakeUrl = FALSE
    /\ CallStart
    /\ parser = ParserIdle
    /\ race = RaceIdle
    /\ mapping = MappingIdle
    /\ calls = CallsIdle
    /\ repeat = RepeatIdle
    /\ worker = WorkerIdle
    /\ timed = TimedIdle
    /\ block = BlockIdle
    /\ handoff = HandoffIdle
    /\ store = [pc |-> "chat",
                servers |-> DEFAULT_SERVERS,
                selectedServerId |-> DEFAULT_SERVERS[1].id,
                messages |-> 0,
                toolsByServer |-> [id \in ServerIds |-> NoList],
                enabledTools |-> [id \in ServerIds |-> NoList],
                typing |-> FALSE,
                requests |-> <<>>,
                removed |-> FALSE]

\* The sidebar's form: addServer, then setSelectedServer with the id it
\* returned.
AddServer ==
    /\ store.pc = "chat"
    /\ Len(store.servers) < Len(DEFAULT_SERVERS) + MaxCustom
    /\ \E id \in NewServerIds :
        store' = setSelectedServer(addServer(store, id), id)
    /\ UNCHANGED <<callVars, parser, race, mapping, calls, repeat, worker, timed, block, handoff>>

RemoveServer ==
    /\ store.pc = "chat"
    /\ \E serverId \in ServerIds :
        store' = [removeServer(store, serverId) EXCEPT !.removed = TRUE]
    /\ UNCHANGED <<callVars, parser, race, mapping, calls, repeat, worker, timed, block, handoff>>

SetSelectedServer ==
    /\ store.pc = "chat"
    /\ \E serverId \in ServerIds :
        store' = setSelectedServer(store, serverId)
    /\ UNCHANGED <<callVars, parser, race, mapping, calls, repeat, worker, timed, block, handoff>>

\* onSuccess of loadToolsMutation, for a server that was the selected one
\* when the load was started.
SetToolsForServer ==
    /\ store.pc = "chat"
    /\ \E serverId \in ServerIds :
        store' = setToolsForServer(store, serverId, ListedTools)
    /\ UNCHANGED <<callVars, parser, race, mapping, calls, repeat, worker, timed, block, handoff>>

\* The check box of a listed tool of the selected server.
ToggleTool ==
    /\ store.pc = "chat"
    /\ \E toolName \in store.toolsByServer[store.selectedServerId].names :
        store' = toggleTool(store, store.selectedServerId, toolName)
    /\ UNCHANGED <<callVars, parser, race, mapping, calls, repeat, worker, timed, block, handoff>>

EnableAllTools ==
    /\ store.pc = "chat"
    /\ store' = enableAllTools(store, store.selectedServerId)
    /\ UNCHANGED <<callVars, parser, race, mapping, calls, repeat, worker, timed, block, handoff>>

HandleSend ==
    /\ store.pc = "chat"
    /\ Len(store.requests) < MaxSends
    /\ \E input \in ChatInputs :
        store' = handleSend(store, input)
    /\ UNCHANGED <<callVars, parser, race, mapping, calls, repeat, worker, timed, block, handoff>>

\* chatMutation.mutateAsync settles: the assistant's message, or the error
\* text, is added and typing is cleared.
ChatSettles ==
    /\ store.pc = "chat"
    /\ store.typing
    /\ store' = [store EXCEPT !.messages = @ + 1, !.typing = FALSE]
    /\ UNCHANGED <<callVars, parser, race, mapping, calls, repeat, worker, timed, block, handoff>>

StoreNext ==
    \/ AddServer
    \/ RemoveServer
    \/ SetSelectedServer
    \/ SetToolsForServer
    \/ ToggleTool
    \/ EnableAllTools
    \/ HandleSend
    \/ ChatSettles

StoreSpec == StoreInit /\ [][StoreNext]_vars

\* ----------------------------------------------------------- withTimeout
\* What the wrapped promise does: it fulfils with a value, rejects with an
\* error, or never settles.
RaceValues == {"response", "event", "null"}

RaceErrors == {RawError, TypeError, McpClientError("fetch failed", "network_error")}

OperationBehaviours ==
    [kind : {"fulfil"}, value : RaceValues, error : {NoError}]
    \cup [kind : {"reject"}, value : {"none"}, error : RaceErrors]
    \cup [kind : {"never"}, value : {"none"}, error : {NoError}]

\* The `message` arguments withTimeout is called with.
TimeoutMessages ==
    {"http_timeout", "sse_timeout", "sse_connection_timeout", "Handshake timed out",
     "RPC request timed out"}

Fulfilled(v) == [kind |-> "fulfilled", value |-> v, error |-> NoError]
Rejected(e) == [kind |-> "rejected", value |-> "none", error |-> e]
Unsettled == [kind |-> "pending", value |-> "none", error |-> NoError]

\* How the wrapped promise settles.
SettlementOf(behaviour) ==
    IF behaviour.kind = "fulfil" THEN Fulfilled(behaviour.value)
    ELSE Rejected(behaviour.error)

ClearTimeout_Skipped(timer) == timer

\* clearTimeout(timeoutHandle): an armed timer is disarmed, one that has
\* fired stays fired.
ClearTimeout(timer) == IF timer = "armed" THEN "cleared" ELSE timer

\* withTimeout up to `await Promise.race([promise, timeoutPromise])`: the
\* timer is armed, neither promise has settled.
RaceInit ==
    /\ build = "index"
    /\ op = "listTools"
    /\ transport = "http"
    /\ hasHandshakeUrl = FALSE
    /\ CallStart
    /\ parser = ParserIdle
    /\ race \in [state : {"racing"}, behaviour : OperationBehaviours,
                 message : TimeoutMessages, promise : {Unsettled},
                 timeoutPromise : {Unsettled}, timer : {"armed"},
                 first : {"none"}, raced : {Unsettled}, result : {Unsettled}]
    /\ mapping = MappingIdle
    /\ calls = CallsIdle
    /\ repeat = RepeatIdle
    /\ worker = WorkerIdle
    /\ timed = TimedIdle
    /\ block = BlockIdle
    /\ handoff = HandoffIdle
    /\ store = StoreIdle

\* The wrapped promise settles; Promise.race takes the settlement if it is
\* the first.  The operation is not cancelled by a timeout, so this can also
\* happen after the wrapper has settled.
RaceOperationSettles ==
    /\ race.state # "idle"
    /\ race.behaviour.kind # "never"
    /\ race.promise = Unsettled
    /\ race' = [race EXCEPT
                  !.promise = SettlementOf(race.behaviour),
                  !.first = IF race.timeoutPromise = Unsettled THEN "promise" ELSE @,
                  !.raced = IF @ = Unsettled THEN SettlementOf(race.behaviour) ELSE @]
    /\ UNCHANGED <<callVars, parser, mapping, calls, repeat, worker, timed, block, handoff, store>>

\* The timer fires: timeoutPromise rejects with McpClientError(message,
\* 'timeout'); Promise.race takes the rejection if it is the first.
RaceTimerFires ==
    /\ race.state # "idle"
    /\ race.timer = "armed"
    /\ race' = [race EXCEPT
                  !.timer = "fired",
                  !.first = IF race.promise = Unsettled THEN "timer" ELSE @,
                  !.timeoutPromise = Rejected(TimeoutError(race.message)),
                  !.raced = IF @ = Unsettled THEN Rejected(TimeoutError(race.message))
                            ELSE @]
    /\ UNCHANGED <<callVars, parser, mapping, calls, repeat, worker, timed, block, handoff, store>>

\* The await returns or throws what Promise.race settled with, and the
\* finally block clears the timer.
RaceSettles ==
    /\ race.state = "racing"
    /\ race.raced # Unsettled
    /\ race' = [race EXCEPT
                  !.state = "settled",
                  !.result = race.raced,
                  !.timer = ClearTimeout(@)]
    /\ UNCHANGED <<callVars, parser, mapping, calls, repeat, worker, timed, block, handoff, store>>

RaceNext ==
    \/ RaceOperationSettles
    \/ RaceTimerFires
    \/ RaceSettles

RaceSpec == RaceInit /\ [][RaceNext]_vars

\* ------------------------------------------------- listTools, the mapping
MaxTools == 3       \* records in the `tools` array of a response

\* A JavaScript value as `typeof` sees it.
JsString(v) == [type |-> "string", value |-> v]
JsUndefined == [type |-> "undefined", value |-> ""]
JsNumber == [type |-> "number", value |-> "42"]

FieldValues == {JsString("echo"), JsString(""), JsUndefined, JsNumber}

\* An element of the `tools` array: an object with any `name` and
\* `description`, or null.
ToolRecords ==
    [isNull : {FALSE}, name : FieldValues, description : {JsString("Echoes"), JsUndefined}]
    \cup {[isNull |-> TRUE, name |-> JsUndefined, description |-> JsUndefined]}

\* response.result?.tools: an array, or anything else.
ToolsMembers ==
    [isArray : {TRUE}, items : UNION {[1..n -> ToolRecords] : n \in 0..MaxTools}]
    \cup [isArray : {FALSE}, items : {<<>>}]

ToolName_UnknownTool(tool) ==
    IF ~tool.isNull /\ tool.name.type = "string" THEN tool.name.value ELSE "unknown_tool"

\* typeof tool?.name === 'string' ? tool.name : 'unknown'
ToolName(tool) ==
    IF ~tool.isNull /\ tool.name.type = "string" THEN tool.name.value ELSE "unknown"

\* typeof tool?.description === 'string' ? tool.description : undefined
ToolDescription(tool) ==
    IF ~tool.isNull /\ tool.description.type = "string"
    THEN tool.description
    ELSE JsUndefined

\* Array.isArray(response.result?.tools) ? response.result.tools : [], then
\* tools.map(...).
MapTools(member) ==
    LET tools == IF member.isArray THEN member.items ELSE <<>>
    IN  [i \in 1..Len(tools) |->
            [name |-> ToolName(tools[i]), description |-> ToolDescription(tools[i])]]

\* listTools holding the response of sendRpc.
MappingInit ==
    /\ build = "index"
    /\ op = "listTools"
    /\ transport = "http"
    /\ hasHandshakeUrl = FALSE
    /\ CallStart
    /\ parser = ParserIdle
    /\ race = RaceIdle
    /\ mapping \in [state : {"response"}, member : ToolsMembers, tools : {<<>>}]
    /\ calls = CallsIdle
    /\ repeat = RepeatIdle
    /\ worker = WorkerIdle
    /\ timed = TimedIdle
    /\ block = BlockIdle
    /\ handoff = HandoffIdle
    /\ store = StoreIdle

\* listTools builds the `tools` member of what it returns.
ListToolsMaps ==
    /\ mapping.state = "response"
    /\ mapping' = [mapping EXCEPT !.state = "returned", !.tools = MapTools(mapping.member)]
    /\ UNCHANGED <<callVars, parser, race, calls, repeat, worker, timed, block, handoff, store>>

MappingNext ==
    \/ ListToolsMaps

MappingSpec == MappingInit /\ [][MappingNext]_vars

\* ------------------------------------------------------- concurrent calls
\* Two calls of listTools / callTool in flight at once.  What a call creates
\* (its warnings array, its SseStream) lives on a heap of objects indexed by
\* the call that created it; the id generator is the one thing all calls use.
CallIds == {"a", "b"}

\* What the servers do on one HTTP request of these calls.
ConcurrentReplies ==
    {r \in Replies :
        \/ r.k = "network"
        \/ r.k = "status" /\ r.status \in {404, 500}
        \/ r.k = "ok" /\ r.body = "empty"
        \/ r.k = "ok" /\ r.body = "json" /\ r.json = LateJson}

MessageFor(id) ==
    [event |-> "message", dk |-> "json", session |-> "",
     json |-> [kind |-> "object", jsonrpc |-> "2.0", id |-> id, error |-> FALSE,
               result |-> "value"]]

PingEvent == [event |-> "ping", dk |-> "empty", session |-> "", json |-> NoResp]

\* What the server of a call puts on that call's event stream: a ping, the
\* answer to the call's request, a message with another id.
StreamEventsFor(id) == {PingEvent, MessageFor(id), MessageFor(0)}

WarningsRef_Shared(c) == "a"

\* `const warnings: string[] = []` in listTools: every call has its own array.
WarningsRef(c) == c

BufferRef_Shared(c) == "a"

\* `new SseStream(...)` in sendViaSse, `private buffer = ''`: every call has
\* its own stream object and buffer.
BufferRef(c) == c

NewCall(o, t, u) ==
    [op |-> o, transport |-> t, url |-> u, pc |-> "start", ids |-> <<>>,
     replies |-> <<>>, log |-> <<>>, taken |-> <<>>, rpc |-> Pending,
     outcome |-> [state |-> "pending", val |-> NoValue, err |-> NoError]]

ConcurrentInit ==
    /\ build = "index"
    /\ op = "listTools"
    /\ transport = "http"
    /\ hasHandshakeUrl = FALSE
    /\ CallStart
    /\ parser = ParserIdle
    /\ race = RaceIdle
    /\ mapping = MappingIdle
    /\ repeat = RepeatIdle
    /\ worker = WorkerIdle
    /\ timed = TimedIdle
    /\ block = BlockIdle
    /\ handoff = HandoffIdle
    /\ store = StoreIdle
    /\ \E oa \in Ops, ob \in Ops, ta \in Transports, tb \in Transports,
          ub \in {"urlA", "urlB"} :
        calls = [issued |-> 0,
                 arrays |-> [c \in CallIds |-> <<>>],
                 buffers |-> [c \in CallIds |-> <<>>],
                 call |-> [c \in CallIds |->
                             IF c = "a" THEN NewCall(oa, ta, "urlA")
                             ELSE NewCall(ob, tb, ub)]]

\* createRpcPayload for the primary request, then the dispatch of sendRpc.
ConcurrentSendRpc(c) ==
    /\ calls.call[c].pc = "start"
    /\ calls' = [calls EXCEPT
                   !.issued = @ + 1,
                   !.call[c].ids = <<calls.issued + 1>>,
                   !.call[c].pc = IF calls.call[c].transport = "http"
                                  THEN "initialize" ELSE "sseWait"]
    /\ UNCHANGED <<callVars, parser, race, mapping, repeat, worker, timed, block, handoff, store>>

\* attemptInitialize(config.url, 'Initialize') of one call.
ConcurrentInitialize(c) ==
    /\ calls.call[c].pc = "initialize"
    /\ \E reply \in ConcurrentReplies :
        LET k == calls.call[c]
            r == PostJsonRpc("index", reply, calls.issued + 1)
        IN  calls' = [calls EXCEPT
                        !.issued = @ + 1,
                        !.arrays[WarningsRef(c)] =
                            IF r.state = "thrown"
                            THEN PushWarning(@, k.op = "listTools",
                                             InitializeWarning("Initialize", k.url, r.err))
                            ELSE @,
                        !.call[c].ids = Append(@, calls.issued + 1),
                        !.call[c].replies = Append(@, reply),
                        !.call[c].pc = "post"]
    /\ UNCHANGED <<callVars, parser, race, mapping, repeat, worker, timed, block, handoff, store>>

\* The primary POST of one call and the catch block of sendViaHttp.
ConcurrentPost(c) ==
    /\ calls.call[c].pc = "post"
    /\ \E reply \in ConcurrentReplies :
        LET k == calls.call[c]
            r == PostJsonRpc("index", reply, k.ids[1])
            method == IF k.op = "listTools" THEN "tools/list" ELSE "tools/call"
        IN  calls' = [calls EXCEPT
                        !.call[c].replies = Append(@, reply),
                        !.call[c].rpc =
                            IF r.state = "returned" THEN r
                            ELSE Thrown(CatchTail("index", method, 0, r.err).err),
                        !.call[c].pc = "complete"]
    /\ UNCHANGED <<callVars, parser, race, mapping, repeat, worker, timed, block, handoff, store>>

\* reader.read() of one call's stream delivers an event block, which nextEvent
\* appends to the buffer of the call's SseStream.
ConcurrentStreamRead(c) ==
    /\ calls.call[c].pc = "sseWait"
    /\ calls.buffers[BufferRef(c)] = <<>>
    /\ Len(calls.call[c].log) < 2
    /\ \E evt \in StreamEventsFor(calls.call[c].ids[1]) :
        calls' = [calls EXCEPT
                    !.buffers[BufferRef(c)] = Append(@, evt),
                    !.call[c].log = Append(@, evt)]
    /\ UNCHANGED <<callVars, parser, race, mapping, repeat, worker, timed, block, handoff, store>>

\* nextEvent of one call returns the first block of the buffer; waitForMessage
\* returns it when it answers the call's request and drops it otherwise.
ConcurrentNextEvent(c) ==
    /\ calls.call[c].pc = "sseWait"
    /\ calls.buffers[BufferRef(c)] # <<>>
    /\ LET k == calls.call[c]
           evt == Head(calls.buffers[BufferRef(c)])
       IN  calls' = [calls EXCEPT
                       !.buffers[BufferRef(c)] = Tail(@),
                       !.call[c].taken = Append(@, evt),
                       !.call[c].rpc =
                           IF WaitForVerdict(evt, IsMessageFor(evt, k.ids[1])) = "event"
                           THEN Returned(safelyParseJson(evt)) ELSE @,
                       !.call[c].pc =
                           IF WaitForVerdict(evt, IsMessageFor(evt, k.ids[1])) = "event"
                           THEN "complete" ELSE @]
    /\ UNCHANGED <<callVars, parser, race, mapping, repeat, worker, timed, block, handoff, store>>

\* The deadline of waitFor passes: null, and sendViaSse throws no_response.
ConcurrentDeadline(c) ==
    /\ calls.call[c].pc = "sseWait"
    /\ calls' = [calls EXCEPT
                   !.call[c].rpc = Thrown(McpClientError("No response message received",
                                                         "no_response")),
                   !.call[c].pc = "complete"]
    /\ UNCHANGED <<callVars, parser, race, mapping, repeat, worker, timed, block, handoff, store>>

\* listTools / callTool of one call builds what it returns.
ConcurrentComplete(c) ==
    /\ calls.call[c].pc = "complete"
    /\ calls' = [calls EXCEPT
                   !.call[c].outcome =
                       Settle(calls.call[c].op, calls.call[c].rpc,
                              calls.arrays[WarningsRef(c)]),
                   !.call[c].pc = "done"]
    /\ UNCHANGED <<callVars, parser, race, mapping, repeat, worker, timed, block, handoff, store>>

ConcurrentNext ==
    \/ \E c \in CallIds : ConcurrentSendRpc(c)
    \/ \E c \in CallIds : ConcurrentInitialize(c)
    \/ \E c \in CallIds : ConcurrentPost(c)
    \/ \E c \in CallIds : ConcurrentStreamRead(c)
    \/ \E c \in CallIds : ConcurrentNextEvent(c)
    \/ \E c \in CallIds : ConcurrentDeadline(c)
    \/ \E c \in CallIds : ConcurrentComplete(c)

ConcurrentSpec == ConcurrentInit /\ [][ConcurrentNext]_vars

\* ------------------------------------------------------ repeated listTools
\* listTools called MaxRounds times, one call after the other, on a server
\* that answers the same request the same way every time.  The calls run
\* the HTTP adapter of part_007.
MaxRounds == 3      \* calls of listTools made one after the other

RepeatReplies ==
    {r \in Replies :
        \/ r.k \in {"network", "timeout"}
        \/ r.k = "status" /\ r.status \in {404, 405, 500}
        \/ r.k = "ok" /\ r.body \in {"empty", "garbage"}
        \/ r.k = "ok" /\ r.body = "json" /\ r.json = LateJson}

\* The server: its answer to `initialize` at the handshake URL and at the
\* main URL, to the POST of tools/list and to the GET of tools/list.
RepeatServers ==
    [handshake : RepeatReplies, initialize : RepeatReplies, post : RepeatReplies,
     get : RepeatReplies]

EntryPc_HandshakeOnce(hasUrl, callsBefore) ==
    IF callsBefore > 0 THEN "post"
    ELSE IF hasUrl THEN "handshake" ELSE "initialize"

\* Where sendViaHttp starts: with the handshake attempts, in every call,
\* whatever the calls before it did.
EntryPc(hasUrl, callsBefore) == IF hasUrl THEN "handshake" ELSE "initialize"

RepeatInit ==
    /\ build = "part007"
    /\ op = "listTools"
    /\ transport = "http"
    /\ hasHandshakeUrl = FALSE
    /\ CallStart
    /\ parser = ParserIdle
    /\ race = RaceIdle
    /\ mapping = MappingIdle
    /\ calls = CallsIdle
    /\ worker = WorkerIdle
    /\ timed = TimedIdle
    /\ block = BlockIdle
    /\ handoff = HandoffIdle
    /\ store = StoreIdle
    /\ repeat \in [pc : {"start"}, server : RepeatServers, hasUrl : BOOLEAN,
                   issued : {0}, id : {0}, warnings : {<<>>}, attempt : {0},
                   rpc : {Pending}, outcomes : {<<>>}]

\* listTools is called: a payload with a fresh id, a new warnings array, and
\* sendViaHttp with its own attempt counter.
RepeatListTools ==
    /\ repeat.pc = "start"
    /\ Len(repeat.outcomes) < MaxRounds
    /\ repeat' = [repeat EXCEPT
                    !.issued = @ + 1,
                    !.id = repeat.issued + 1,
                    !.warnings = <<>>,
                    !.attempt = 0,
                    !.rpc = Pending,
                    !.pc = EntryPc(repeat.hasUrl, Len(repeat.outcomes))]
    /\ UNCHANGED <<callVars, parser, race, mapping, calls, worker, timed, block, handoff, store>>

RepeatAttemptInitialize ==
    /\ repeat.pc \in {"handshake", "initialize"}
    /\ LET targetUrl == IF repeat.pc = "handshake" THEN "handshakeUrl" ELSE "url"
           label == IF repeat.pc = "handshake" THEN "Handshake" ELSE "Initialize"
           r == PostJsonRpc("part007", repeat.server[repeat.pc], repeat.issued + 1)
       IN  repeat' = [repeat EXCEPT
                        !.issued = @ + 1,
                        !.warnings = IF r.state = "thrown"
                                     THEN PushWarning(@, TRUE,
                                                      InitializeWarning(label, targetUrl, r.err))
                                     ELSE @,
                        !.pc = NextAfterInitialize(repeat.pc, r)]
    /\ UNCHANGED <<callVars, parser, race, mapping, calls, worker, timed, block, handoff, store>>

RepeatPrimaryPost ==
    /\ repeat.pc = "post"
    /\ LET r == PostJsonRpc("part007", repeat.server.post, repeat.id)
           tail == CatchTail("part007", "tools/list", repeat.attempt, r.err)
       IN  repeat' =
             IF r.state = "returned"
             THEN [repeat EXCEPT !.rpc = r, !.pc = "complete"]
             ELSE IF ShouldFallback("part007", r.err)
             THEN [repeat EXCEPT !.warnings = FallbackWarnings(@, TRUE, r.err),
                                 !.pc = "get"]
             ELSE IF tail.retry
             THEN [repeat EXCEPT !.attempt = @ + 1]
             ELSE [repeat EXCEPT !.rpc = Thrown(tail.err), !.pc = "complete"]
    /\ UNCHANGED <<callVars, parser, race, mapping, calls, worker, timed, block, handoff, store>>

RepeatGetFallback ==
    /\ repeat.pc = "get"
    /\ LET r == GetJsonRpc(repeat.server.get, repeat.id)
           tail == CatchTail("part007", "tools/list", repeat.attempt, r.err)
       IN  repeat' =
             IF r.state = "returned"
             THEN [repeat EXCEPT !.rpc = r, !.pc = "complete"]
             ELSE IF tail.retry
             THEN [repeat EXCEPT !.attempt = @ + 1, !.pc = "post"]
             ELSE [repeat EXCEPT !.rpc = Thrown(tail.err), !.pc = "complete"]
    /\ UNCHANGED <<callVars, parser, race, mapping, calls, worker, timed, block, handoff, store>>

\* listTools returns or throws; the caller keeps the outcome and may call
\* again.
RepeatComplete ==
    /\ repeat.pc = "complete"
    /\ repeat' = [repeat EXCEPT
                    !.outcomes = Append(@, Settle("listTools", repeat.rpc, repeat.warnings)),
                    !.pc = "start"]
    /\ UNCHANGED <<callVars, parser, race, mapping, calls, worker, timed, block, handoff, store>>

RepeatNext ==
    \/ RepeatListTools
    \/ RepeatAttemptInitialize
    \/ RepeatPrimaryPost
    \/ RepeatGetFallback
    \/ RepeatComplete

RepeatSpec == RepeatInit /\ [][RepeatNext]_vars

\* -------------------------------------------------------------- the worker
\* One request to the routes of the worker that use the client.  The body is
\* whatever JSON the caller sent: a member typed `string` may be absent or
\* hold a value of another type.
Routes == {"/api/mcp/list", "/api/mcp/call", "/api/chat"}

\* payload.server as sent.  url: absent, "", only white space, a truthy value
\* that is not a string, a string `new URL` rejects, a string it accepts.
\* transport: absent, 'http', 'sse', another string, a truthy value that is
\* not a string.  handshakeUrl: absent, a string, a truthy value that is not
\* a string.
ServerPayloads ==
    [url : {"missing", "empty", "blank", "notString", "garbage", "valid"},
     transport : {"missing", "http", "sse", "other", "notString"},
     handshakeUrl : {"missing", "string", "notString"}]

NoServer == [url |-> "missing", transport |-> "missing", handshakeUrl |-> "missing"]

\* The request body after safeJson: null, or an object with or without the
\* members the route requires.  maybeTool: absent, a text parseToolCommand
\* rejects, a command.
Bodies ==
    [json : {FALSE}, hasServer : {FALSE}, server : {NoServer},
     hasName : {FALSE}, hasMessage : {FALSE}, maybeTool : {"missing"}]
    \cup [json : {TRUE}, hasServer : {FALSE}, server : {NoServer},
          hasName : BOOLEAN, hasMessage : BOOLEAN, maybeTool : {"missing"}]
    \cup [json : {TRUE}, hasServer : {TRUE}, server : ServerPayloads,
          hasName : BOOLEAN, hasMessage : BOOLEAN, maybeTool : {"missing", "unparsable", "command"}]

NoResponse == [status |-> 0, code |-> ""]

respondJson(status, code) == [status |-> status, code |-> code]

\* normaliseServer: null, a TypeError (`.trim` of a value that is not a
\* string), or the configuration handed to the client.
normaliseServer(p) ==
    IF p.url \in {"missing", "empty"} \/ p.transport = "missing" THEN "null"
    ELSE IF p.url = "notString" THEN "TypeError"
    ELSE IF p.transport \notin {"http", "sse"} THEN "null"
    ELSE IF p.url \in {"blank", "garbage"} THEN "null"
    ELSE IF p.handshakeUrl = "notString" THEN "TypeError"
    ELSE "config"

\* The members each route requires before it looks at the server.
HasRequired(route, body) ==
    /\ body.json
    /\ body.hasServer
    /\ route = "/api/mcp/call" => body.hasName
    /\ route = "/api/chat" => body.hasMessage

\* What the request brings for a session: no session cookie; a token for
\* which supabase.auth.getUser reports an error; one for which it reports no
\* user id; a user whose profile cannot be read; a user with a profile.
Sessions == {"noCookie", "getUserError", "noUserId", "profileError", "user"}

requireUser_TrustsCookie(session) ==
    IF session = "noCookie" THEN "null" ELSE "user"

\* requireUser: null, or the authenticated user.
requireUser(session) ==
    IF session \in {"noCookie", "getUserError", "noUserId"} THEN "null" ELSE "user"

WorkerInit ==
    /\ build = "index"
    /\ op = "listTools"
    /\ transport = "http"
    /\ hasHandshakeUrl = FALSE
    /\ CallStart
    /\ parser = ParserIdle
    /\ race = RaceIdle
    /\ mapping = MappingIdle
    /\ calls = CallsIdle
    /\ repeat = RepeatIdle
    /\ timed = TimedIdle
    /\ block = BlockIdle
    /\ handoff = HandoffIdle
    /\ store = StoreIdle
    /\ worker \in [pc : {"requireUser"}, method : {"POST", "GET"}, route : Routes,
                   session : Sessions, body : Bodies, response : {NoResponse},
                   clientCalls : {<<>>}]

\* No route matches a request that is not a POST.
WorkerNotFound ==
    /\ worker.pc = "requireUser"
    /\ worker.method # "POST"
    /\ worker' = [worker EXCEPT !.pc = "responded",
                                !.response = respondJson(404, "not_found")]
    /\ UNCHANGED <<callVars, parser, race, mapping, calls, repeat, timed, block, handoff, store>>

WorkerRequireUser ==
    /\ worker.pc = "requireUser"
    /\ worker.method = "POST"
    /\ worker' = IF requireUser(worker.session) # "null"
                 THEN [worker EXCEPT !.pc = "safeJson"]
                 ELSE [worker EXCEPT !.pc = "responded",
                                     !.response = respondJson(401, "auth_failed")]
    /\ UNCHANGED <<callVars, parser, race, mapping, calls, repeat, timed, block, handoff, store>>

WorkerSafeJson ==
    /\ worker.pc = "safeJson"
    /\ worker' = IF HasRequired(worker.route, worker.body)
                 THEN [worker EXCEPT !.pc = "normaliseServer"]
                 ELSE [worker EXCEPT !.pc = "responded",
                                     !.response = respondJson(400, "validation_failed")]
    /\ UNCHANGED <<callVars, parser, race, mapping, calls, repeat, timed, block, handoff, store>>

\* normaliseServer and the test of its result; an exception it raises is
\* caught by the handler's outer catch.
WorkerNormaliseServer ==
    /\ worker.pc = "normaliseServer"
    /\ LET server == normaliseServer(worker.body.server)
       IN  worker' =
             CASE server = "null" ->
                    [worker EXCEPT !.pc = "responded",
                                   !.response = respondJson(400, "validation_failed")]
               [] server = "TypeError" ->
                    [worker EXCEPT !.pc = "responded",
                                   !.response = respondJson(500, "internal_error")]
               [] OTHER ->
                    [worker EXCEPT !.pc = "route"]
    /\ UNCHANGED <<callVars, parser, race, mapping, calls, repeat, timed, block, handoff, store>>

\* /api/chat without a tool command, or with one that does not parse.
WorkerChatReply ==
    /\ worker.pc = "route"
    /\ worker.route = "/api/chat"
    /\ worker.body.maybeTool # "command"
    /\ worker' = [worker EXCEPT
                    !.pc = "responded",
                    !.response = IF worker.body.maybeTool = "missing"
                                 THEN respondJson(200, "")
                                 ELSE respondJson(400, "validation_failed")]
    /\ UNCHANGED <<callVars, parser, race, mapping, calls, repeat, timed, block, handoff, store>>

\* listMcpTools(server) / callMcpTool({...server, ...}) and the route's
\* try/catch around it.
WorkerCallClient ==
    /\ worker.pc = "route"
    /\ worker.route = "/api/chat" => worker.body.maybeTool = "command"
    /\ \E result \in {"resolved", "McpClientError", "Error"} :
        worker' = [worker EXCEPT
            !.pc = "responded",
            !.clientCalls = Append(@,
                [fn |-> IF worker.route = "/api/mcp/list" THEN "listTools" ELSE "callTool",
                 url |-> worker.body.server.url,
                 transport |-> worker.body.server.transport]),
            !.response =
                IF result = "resolved" THEN respondJson(200, "")
                ELSE IF worker.route = "/api/chat" /\ result = "McpClientError"
                THEN respondJson(400, "mcp_error")
                ELSE respondJson(502, "mcp_unreachable")]
    /\ UNCHANGED <<callVars, parser, race, mapping, calls, repeat, timed, block, handoff, store>>

WorkerNext ==
    \/ WorkerNotFound
    \/ WorkerRequireUser
    \/ WorkerSafeJson
    \/ WorkerNormaliseServer
    \/ WorkerChatReply
    \/ WorkerCallClient

WorkerSpec == WorkerInit /\ [][WorkerNext]_vars

\* ------------------------------------------------- an SSE call and the clock
\* sendViaSse of index.ts against the clock (Date.now(), in ticks).  Each of
\* its four stages is given config.timeoutMs: the connect and the POST as the
\* delay of withTimeout, the two waits as `deadline = Date.now() + timeoutMs`
\* at the head of waitFor.
MaxTimeoutMs == 3   \* config.timeoutMs is 1..MaxTimeoutMs ticks

TimedStages == <<"connect", "endpoint", "post", "message">>

\* The deadline a stage that starts at `now` runs under.
StageDeadline(callStart, now, timeoutMs) == now + timeoutMs

\* What sendViaSse throws when the deadline of a stage passes.
StageTimeoutCode(stage) ==
    CASE stage = 1 -> "timeout"
      [] stage = 2 -> "handshake_failed"
      [] stage = 3 -> "timeout"
      [] OTHER -> "no_response"

TimedInit ==
    /\ build = "index"
    /\ op = "listTools"
    /\ transport = "sse"
    /\ hasHandshakeUrl = FALSE
    /\ CallStart
    /\ parser = ParserIdle
    /\ race = RaceIdle
    /\ mapping = MappingIdle
    /\ calls = CallsIdle
    /\ repeat = RepeatIdle
    /\ worker = WorkerIdle
    /\ block = BlockIdle
    /\ handoff = HandoffIdle
    /\ store = StoreIdle
    /\ \E t \in 1..MaxTimeoutMs, start \in 0..1 :
        timed = [timeoutMs |-> t, callStart |-> start, now |-> start, stage |-> 1,
                 deadline |-> StageDeadline(start, start, t), pending |-> 0,
                 outcome |-> "pending"]

\* Time passes while the stage waits; the timer has not fired yet.
TimedTick ==
    /\ timed.outcome = "pending"
    /\ timed.now < timed.deadline
    /\ timed' = [timed EXCEPT !.now = @ + 1]
    /\ UNCHANGED <<callVars, parser, race, mapping, calls, repeat, worker, block, handoff, store>>

\* During a wait an event the predicate rejects arrives: waitFor loops, under
\* the deadline it computed when it was entered.
TimedOtherEvent ==
    /\ timed.outcome = "pending"
    /\ timed.stage \in {2, 4}
    /\ timed.now < timed.deadline
    /\ timed.pending < 2
    /\ timed' = [timed EXCEPT !.pending = @ + 1]
    /\ UNCHANGED <<callVars, parser, race, mapping, calls, repeat, worker, block, handoff, store>>

\* The stage gets what it waits for before its deadline: the response to the
\* GET, the endpoint event, the response to the POST, the message.
TimedStageSettles ==
    /\ timed.outcome = "pending"
    /\ timed.now < timed.deadline
    /\ \E ok \in BOOLEAN :
        timed' = IF ~ok
                 THEN [timed EXCEPT !.outcome = "failed"]
                 ELSE IF timed.stage = Len(TimedStages)
                 THEN [timed EXCEPT !.outcome = "returned"]
                 ELSE [timed EXCEPT
                         !.stage = @ + 1,
                         !.pending = 0,
                         !.deadline = StageDeadline(timed.callStart, timed.now,
                                                    timed.timeoutMs)]
    /\ UNCHANGED <<callVars, parser, race, mapping, calls, repeat, worker, block, handoff, store>>

\* The deadline of the stage passes: the timer of withTimeout rejects, or
\* waitFor returns null.
TimedStageTimesOut ==
    /\ timed.outcome = "pending"
    /\ timed.now >= timed.deadline
    /\ timed' = [timed EXCEPT !.outcome = StageTimeoutCode(timed.stage)]
    /\ UNCHANGED <<callVars, parser, race, mapping, calls, repeat, worker, block, handoff, store>>

TimedNext ==
    \/ TimedTick
    \/ TimedOtherEvent
    \/ TimedStageSettles
    \/ TimedStageTimesOut

TimedSpec == TimedInit /\ [][TimedNext]_vars

\* ---------------------------------------------------------------- helpers
Last(seq) == seq[Len(seq)]

Finished == pc = "done"

\* The response the adapter took as the answer to the primary request: what
\* the HTTP exchange returned, or the message event the SSE wait matched.
Accepted ==
    IF transport = "sse"
    THEN (IF messageEvent = NoEvent THEN NoResp ELSE safelyParseJson(messageEvent))
    ELSE rpc.val

CountVerb(verb) == Cardinality({i \in 1..Len(sent) : sent[i].verb = verb})

NoDuplicates(ws) == \A i, j \in 1..Len(ws) : ws[i] = ws[j] => i = j

InSeq(x, seq) == \E i \in 1..Len(seq) : seq[i] = x

C2_ErrorResponseIsMcpError ==
    (op = "callTool" /\ Finished /\ Accepted.kind = "object" /\ Accepted.error) =>
        (outcome.state = "thrown" /\ outcome.err.code = "mcp_error")

\* ------------------------------------------------------------------- C3
\* C3: every call that ends in success accepted a response of version "2.0".
C3_SuccessHasVersion2 ==
    (Finished /\ outcome.state = "returned") => Accepted.jsonrpc = "2.0"

\* ------------------------------------------------------------------- C4
\* C4: a response is returned as the result of a call only if its id is the
\* id of the outstanding request.
C4_AcceptedIdMatches ==
    (Finished /\ outcome.state = "returned") => Accepted.id = payload.id

\* ------------------------------------------------------------------- C5
\* C5: while sendViaSse waits for the message, the wait ends only with no
\* event at all (deadline, timer, end or failure of the stream: nothing is
\* taken off the stream in that step) or with a `message` event whose JSON id
\* is the outstanding request's; every other event is dropped and the wait
\* goes on, and the matched event's payload decides how the exchange settles.
C5_NonMatchingEventsAreDiscarded ==
    [][(pc = "sseMessage" /\ pc' # "sseMessage") =>
          \/ /\ messageEvent' = NoEvent
             /\ delivered' = delivered
             /\ buffer' = buffer
             /\ rpc'.err.code = "no_response"
          \/ /\ messageEvent'.event = "message"
             /\ messageEvent'.dk = "json"
             /\ messageEvent'.json.kind = "object"
             /\ messageEvent'.json.id = payload.id
             /\ rpc' = IF messageEvent'.json.error
                       THEN Thrown(McpClientError("MCP error response", "mcp_error"))
                       ELSE Returned(messageEvent'.json)]_vars

\* Two events were dropped by the message wait before the matching one came.
C5_Witness ==
    /\ transport = "sse"
    /\ build = "part007"
    /\ Finished
    /\ outcome.state = "returned"
    /\ messageEvent # NoEvent
    /\ delivered >= 3
    /\ buffer = <<>>

\* ------------------------------------------------------------------- C6
PrimaryRequest == Request("POST", "url", "", payload.method, payload.id, "")

GoodAnswer == answer.k = "ok" /\ answer.body \in {"empty", "json", "late"}

\* C6: in the HTTP adapter no outcome of the initialize attempts settles the
\* call: while they run nothing but initialize requests is sent and the
\* exchange is pending; afterwards the primary POST for the payload is the
\* first request after them; and the exchange returns exactly when the
\* latest primary/fallback request was answered 2xx with an empty or JSON body.
C6_HandshakeNeverFatal ==
    transport = "http" =>
        /\ pc \in {"handshake", "initialize"} =>
              /\ rpc.state = "pending"
              /\ \A i \in 1..Len(sent) : sent[i].method = "initialize"
        /\ pc \in {"get", "complete", "done"} =>
              \E i \in 1..Len(sent) :
                  /\ sent[i] = PrimaryRequest
                  /\ \A j \in 1..(i - 1) : sent[j].method = "initialize"
        /\ pc \in {"complete", "done"} => (rpc.state = "returned" <=> GoodAnswer)

\* Both initialize attempts failed, one with a status outside 404/405/501,
\* and the call still succeeded.
C6_Witness ==
    /\ transport = "http"
    /\ op = "listTools"
    /\ Finished
    /\ outcome.state = "returned"
    /\ Len(warnings) = 2
    /\ warnings[1].label = "Handshake"
    /\ warnings[1].status = 500
    /\ warnings[2].label = "Initialize"

\* ------------------------------------------------------------------- C7
\* C7: the warnings accumulated never hold the same message twice, and the
\* warnings member listTools returns is absent exactly when there are none,
\* so it is never an empty list.
C7_WarningsDistinctAndNonEmpty ==
    /\ NoDuplicates(warnings)
    /\ (outcome.state = "returned" /\ outcome.val.kind = "list") =>
          /\ NoDuplicates(outcome.val.warnings)
          /\ outcome.val.warningsDefined => Len(outcome.val.warnings) > 0
          /\ ~outcome.val.warningsDefined => warnings = <<>>

PayloadGets ==
    {i \in 1..Len(sent) : sent[i].verb = "GET" /\ sent[i].method = payload.method}

\* The GET-retry warning was pushed twice in one call and is returned once.
C7_Witness ==
    /\ op = "listTools"
    /\ Finished
    /\ outcome.state = "returned"
    /\ outcome.val.warningsDefined
    /\ Cardinality(PayloadGets) = 2

\* ------------------------------------------------------------------- C8
FallbackRequest == Request("GET", "url", "", payload.method, payload.id, "")

C9_AtMostOneFallbackGet ==
    transport = "http" => Cardinality(PayloadGets) <= 1

\* ------------------------------------------------------------------ C10
FailedAfterFallback ==
    /\ build = "part007"
    /\ transport = "http"
    /\ pc \in {"complete", "done"}
    /\ Last(sent).verb = "GET"
    /\ rpc.state = "thrown"

\* C10 (as claimed): when the GET fallback fails, the error surfaced names the
\* status the POST was rejected with.
C10_SurfacedStatusIsPostStatus ==
    FailedAfterFallback => rpc.err.status = postError.status

\* C10 (amended): when the GET fallback fails and the call fails with it, the
\* error surfaced is the GET's: an http_error naming the GET's status when the
\* GET was answered with a non-2xx status, else the GET's own failure kind.
C10_SurfacedErrorIsGetError ==
    FailedAfterFallback =>
        /\ answer.k = "status" =>
              (rpc.err.code = "http_error" /\ rpc.err.status = answer.status)
        /\ answer.k = "timeout" => rpc.err.code = "timeout"
        /\ answer.k = "network" => rpc.err.code = "network_error"
        /\ answer.k = "ok" => rpc.err.code \in {"invalid_json", "invalid_response"}

C10_Witness ==
    /\ FailedAfterFallback
    /\ Finished
    /\ postError.status = 405
    /\ answer.k = "status"
    /\ answer.status = 500
    /\ outcome.err.status = 500

\* ------------------------------------------------------------------ C11
PrimaryPosts == {i \in 1..Len(sent) : sent[i] = PrimaryRequest}

\* C11: in the HTTP adapter with the retry loop, a failure of kind timeout or
\* network error of the primary POST is surfaced only after the primary POST
\* was issued a second time.
C11_TransientFailureIsRetried ==
    (/\ build = "part007"
     /\ transport = "http"
     /\ pc \in {"complete", "done"}
     /\ Last(sent) = PrimaryRequest
     /\ answer.k \in {"timeout", "network"}) =>
        Cardinality(PrimaryPosts) >= 2

\* ------------------------------------------------------------------ C12
InitializeRequests(url) ==
    {i \in 1..Len(sent) : sent[i].method = "initialize" /\ sent[i].url = url}

\* C12: in one HTTP call the primary POST is issued at most twice; each
\* initialize target gets at most one request whatever its outcome; and a
\* primary POST answered with a status outside {403, 404, 405} or with a body
\* that is not JSON settles the exchange at once, as http_error with that
\* status or as invalid_json, with no request after it.
C12_RetriesBoundedAndRestricted ==
    transport = "http" =>
        /\ Cardinality(PrimaryPosts) <= 2
        /\ \A u \in {"url", "handshakeUrl"} : Cardinality(InitializeRequests(u)) <= 1
        /\ (/\ sent # <<>>
            /\ Last(sent) = PrimaryRequest
            /\ answer.k = "status"
            /\ answer.status \notin FallbackStatuses) =>
              /\ pc \in {"complete", "done"}
              /\ rpc = Thrown(McpStatusError(rpc.err.text, "http_error", answer.status))
        /\ (/\ sent # <<>>
            /\ Last(sent) = PrimaryRequest
            /\ answer.k = "ok"
            /\ answer.body = "garbage") =>
              /\ pc \in {"complete", "done"}
              /\ rpc.state = "thrown"
              /\ rpc.err.code = "invalid_json"

\* Both initialize attempts failed, the first primary POST failed at network
\* level, the retried POST was answered 500 and the call failed with it.
C12_Witness ==
    /\ build = "part007"
    /\ transport = "http"
    /\ Finished
    /\ Cardinality(PrimaryPosts) = 2
    /\ Cardinality(InitializeRequests("url")) = 1
    /\ Cardinality(InitializeRequests("handshakeUrl")) = 1
    /\ Last(sent) = PrimaryRequest
    /\ answer.k = "status"
    /\ answer.status = 500
    /\ outcome.state = "thrown"

\* ------------------------------------------------------------------ C13
\* C13: whenever the server does not deliver the response within timeoutMs
\* (the HTTP answer to the primary or fallback request is not complete in
\* time, or the SSE message wait ends at its deadline with the stream still
\* open), the exchange ends as a failure of kind timeout: the call does not
\* block and does not return the late response.
C13_DeadlineEndsInTimeout ==
    [][/\ (/\ transport = "http"
           /\ pc \in {"post", "get"}
           /\ (answer'.k = "timeout" \/ answer'.body \in {"late", "never"})) =>
             (pc' = "complete" /\ rpc'.state = "thrown" /\ rpc'.err.code = "timeout")
       /\ (/\ pc = "sseMessage"
           /\ pc' # "sseMessage"
           /\ messageEvent' = NoEvent
           /\ streamState' = "open") =>
             (rpc'.state = "thrown" /\ rpc'.err.code = "timeout")]_vars

\* ------------------------------------------------------------------ C14
\* The connect request timed out: the timer of withTimeout won against the
\* fetch that opens the stream.
ConnectTimedOut == rpc = Thrown(TimeoutError(ConnectTimeoutMessage))

\* C14: an SSE call that returned or threw after the stream was opened has
\* cancelled the reader once and aborted the connection once, and one that
\* timed out while connecting has aborted the connection once.
C14_CleanupExactlyOnce ==
    (transport = "sse" /\ Finished) =>
        /\ streamState # "none" => (readerCancelled = 1 /\ aborted = 1)
        /\ ConnectTimedOut => aborted = 1

\* ------------------------------------------------------------------ C15
\* C15: every call of listTools or callTool eventually returns or throws,
\* whatever the server does.
C15_EveryCallTerminates == <>Finished

\* ------------------------------------------------------------------ C16
\* C16: in the SSE adapter every POST is sent after an `endpoint` event was
\* received, goes to that event's path resolved against the URL the stream
\* was opened at, and carries the session header with the event's sessionId
\* (none when the event has none).
C16_PostFollowsEndpoint ==
    transport = "sse" =>
        \A i \in 1..Len(sent) :
            sent[i].verb = "POST" =>
                /\ endpointEvent.event = "endpoint"
                /\ endpointEvent.dk = "path"
                /\ sent[i].url = StreamUrl
                /\ sent[i].path = EndpointPath(endpointEvent)
                /\ sent[i].session = endpointEvent.session

\* ------------------------------------------------------------------ C17
\* The events nextEvent has returned, and the text left in the buffer, once
\* `text` has arrived in the buffer in one piece and every delimiter in it
\* has been consumed.
RECURSIVE Drain(_, _)
Drain(text, events) ==
    IF IndexOfDelimiter(text) = 0 THEN [text |-> text, events |-> events]
    ELSE LET idx == IndexOfDelimiter(text)
             event == parseSseChunk(SubSeq(text, 1, idx - 1))
         IN  Drain(SubSeq(text, idx + 2, Len(text)),
                   IF event = NullEvent THEN events ELSE Append(events, event))

InOneChunk(input) == Drain(ReplaceCrLf(input), <<>>)

\* C17: however the stream is cut into reads, once all of it has been read
\* and every delimiter consumed, the parser has returned the events, and
\* holds the rest, that it has when the stream arrives in one chunk.
C17_ChunkingIndependent ==
    (/\ parser.consumed = Len(parser.input)
     /\ IndexOfDelimiter(parser.text) = 0
     /\ ~parser.eof) =>
        /\ parser.events = InOneChunk(parser.input).events
        /\ parser.text = InOneChunk(parser.input).text

\* ------------------------------------------------------------------ C18
\* C18: withTimeout settles with the first settlement of the wrapped promise
\* and the timer: the promise's value or error unchanged when the promise
\* settled first, a failure of kind timeout with the given message when the
\* timer fired first; it settles only once one of them has; and from then on
\* the timer is not armed.
C18_FirstSettlementWins ==
    /\ race.state = "racing" => race.result = Unsettled
    /\ race.state = "settled" =>
          /\ race.first \in {"promise", "timer"}
          /\ race.first = "promise" => race.result = SettlementOf(race.behaviour)
          /\ race.first = "timer" =>
                race.result = Rejected(McpClientError(race.message, "timeout"))
          /\ race.timer # "armed"

\* The timer won; the operation fulfilled afterwards and its value is not
\* what the wrapper settled with.
C18_Witness ==
    /\ race.state = "settled"
    /\ race.first = "timer"
    /\ race.promise.kind = "fulfilled"
    /\ race.result = Rejected(McpClientError("http_timeout", "timeout"))

\* ------------------------------------------------------------------ C19
HasStringName(tool) == ~tool.isNull /\ tool.name.type = "string"

\* The list listTools returned maps the server's array one-to-one and in
\* order, a record without a string name getting the name `sentinel`.
MappedOneToOne(sentinel) ==
    (mapping.state = "returned" /\ mapping.member.isArray) =>
        /\ Len(mapping.tools) = Len(mapping.member.items)
        /\ \A i \in 1..Len(mapping.member.items) :
              mapping.tools[i].name =
                  IF HasStringName(mapping.member.items[i])
                  THEN mapping.member.items[i].name.value
                  ELSE sentinel

\* C19 (as claimed): the sentinel name is "unknown_tool".
C19_SentinelIsUnknownTool == MappedOneToOne("unknown_tool")

\* C19 (amended): listTools maps the server's tool records one-to-one and in
\* order; a record with a string name keeps it, and a record whose name is
\* missing or not a string (or that is null) is kept with the name "unknown".
C19_SentinelIsUnknown == MappedOneToOne("unknown")

\* Three records; the second has no name, the third a number as name.
C19_Witness ==
    /\ mapping.state = "returned"
    /\ mapping.member.isArray
    /\ Len(mapping.member.items) = 3
    /\ mapping.member.items[1].name = JsString("echo")
    /\ mapping.member.items[2].name = JsUndefined
    /\ mapping.member.items[3].name = JsNumber
    /\ mapping.tools[1].name = "echo"
    /\ mapping.tools[2].name = "unknown"
    /\ mapping.tools[3].name = "unknown"

\* ------------------------------------------------------------------ C20
\* What a call that ran alone returns for the answers call k got: the
\* warning of its own initialize attempt, the settlement of its own POST or
\* of the events it took from its own stream.
AloneWarnings(k) ==
    IF k.transport = "http"
       /\ PostJsonRpc("index", k.replies[1], k.ids[2]).state = "thrown"
    THEN PushWarning(<<>>, k.op = "listTools",
                     InitializeWarning("Initialize", k.url,
                                       PostJsonRpc("index", k.replies[1], k.ids[2]).err))
    ELSE <<>>

AloneRpc(k) ==
    IF k.transport = "http"
    THEN LET r == PostJsonRpc("index", k.replies[2], k.ids[1])
             method == IF k.op = "listTools" THEN "tools/list" ELSE "tools/call"
         IN  IF r.state = "returned" THEN r
             ELSE Thrown(CatchTail("index", method, 0, r.err).err)
    ELSE IF k.taken # <<>> /\ IsMessageFor(Last(k.taken), k.ids[1])
    THEN Returned(safelyParseJson(Last(k.taken)))
    ELSE Thrown(McpClientError("No response message received", "no_response"))

IsPrefix(p, q) == Len(p) <= Len(q) /\ SubSeq(q, 1, Len(p)) = p

\* C20: in every interleaving of two calls, the request ids of a call are used
\* by no other call, the events a call takes from a stream are those delivered
\* on its own stream, in order, and what a finished call returns or throws,
\* warnings included, is what it returns for the same answers when run alone.
C20_CallsAreIndependent ==
    \A c \in CallIds :
        LET k == calls.call[c]
        IN  /\ \A d \in CallIds \ {c} :
                  \A i \in 1..Len(k.ids), j \in 1..Len(calls.call[d].ids) :
                      k.ids[i] # calls.call[d].ids[j]
            /\ IsPrefix(k.taken, k.log)
            /\ k.pc = "done" => k.outcome = Settle(k.op, AloneRpc(k), AloneWarnings(k))

\* Both calls are listTools over HTTP, finished; a's initialize was answered
\* 500 at urlA and b's 404 at urlB, and each returned its own warning only.
C20_Witness ==
    /\ \A c \in CallIds :
          /\ calls.call[c].pc = "done"
          /\ calls.call[c].op = "listTools"
          /\ calls.call[c].transport = "http"
          /\ calls.call[c].outcome.state = "returned"
          /\ Len(calls.call[c].outcome.val.warnings) = 1
    /\ calls.call["a"].outcome.val.warnings[1].status = 500
    /\ calls.call["b"].outcome.val.warnings[1].status = 404
    /\ calls.call["b"].outcome.val.warnings[1].url = "urlB"
    /\ calls.call["b"].ids[1] < calls.call["a"].ids[2]
    /\ calls.call["a"].ids[1] < calls.call["b"].ids[2]

AllInitializeRequests == {i \in 1..Len(sent) : sent[i].method = "initialize"}

HandshakeFailed ==
    \E i \in 1..Len(warnings) : warnings[i].label = "Handshake"

PastHandshake == pc \notin {"start", "handshake", "initialize"}

\* C22: in an HTTP call the `initialize` requests are the first requests
\* sent, before any other request, and there are at most two of them, one
\* per target.  With a handshake URL the first goes there, and one goes to
\* the main URL exactly when the first failed (seen, in listTools, by its
\* warning); without a handshake URL exactly one goes to the main URL.
C22_HandshakeOrder ==
    transport = "http" =>
        /\ Cardinality(AllInitializeRequests) <= 2
        /\ Cardinality(InitializeRequests("handshakeUrl")) <= 1
        /\ Cardinality(InitializeRequests("url")) <= 1
        /\ \A i \in AllInitializeRequests :
               \A j \in 1..Len(sent) : sent[j].method # "initialize" => i < j
        /\ \A i \in InitializeRequests("handshakeUrl") :
               \A j \in InitializeRequests("url") : i < j
        /\ ~hasHandshakeUrl =>
               /\ InitializeRequests("handshakeUrl") = {}
               /\ PastHandshake /\ pc # "hung" => Cardinality(InitializeRequests("url")) = 1
        /\ hasHandshakeUrl =>
               /\ pc \notin {"start", "handshake"} =>
                      Cardinality(InitializeRequests("handshakeUrl")) = 1
               /\ InitializeRequests("url") # {} => InitializeRequests("handshakeUrl") # {}
               /\ op = "listTools" /\ PastHandshake /\ pc # "hung" =>
                      (InitializeRequests("url") # {} <=> HandshakeFailed)

\* The handshake URL answered, so the main URL got no `initialize`, and the
\* primary POST went out after it.
C22_Witness ==
    /\ transport = "http"
    /\ build = "part007"
    /\ op = "listTools"
    /\ hasHandshakeUrl
    /\ Finished
    /\ ~HandshakeFailed
    /\ Cardinality(AllInitializeRequests) = 1
    /\ Len(sent) = 2
    /\ sent[2] = PrimaryRequest

\* ------------------------------------------------------------------ C23
\* The HTTP exchange ended on a status failure: the last request of the call
\* was answered with a failing status and nothing was sent after it.
EndedOnStatus ==
    /\ transport = "http"
    /\ Finished
    /\ Last(sent).method = payload.method
    /\ answer.k = "status"

\* C23: an HTTP call whose last primary or fallback request was answered with
\* a failing status throws an error of kind http_error whose message names
\* the URL and that status; the message carries the hint that the server may
\* not implement JSON-RPC at this path exactly when the method is tools/list.
C23_StatusFailureMessage ==
    EndedOnStatus =>
        /\ outcome.state = "thrown"
        /\ outcome.err.cls = "McpClientError"
        /\ outcome.err.code = "http_error"
        /\ outcome.err.status = answer.status
        /\ MessageParts(outcome.err.text).url
        /\ MessageParts(outcome.err.text).status
        /\ MessageParts(outcome.err.text).suggestion <=> (payload.method = "tools/list")

\* listTools on part_007: the POST was answered 405, the GET fallback 500,
\* and the call failed naming status 500 with the hint.
C23_Witness ==
    /\ EndedOnStatus
    /\ build = "part007"
    /\ payload.method = "tools/list"
    /\ Last(sent).verb = "GET"
    /\ postError.status = 405
    /\ answer.status = 500
    /\ outcome.err.status = 500
    /\ MessageParts(outcome.err.text).suggestion

\* ------------------------------------------------------------------ C24
\* A server payload the claim calls invalid: the URL is absent or does not
\* parse (an empty or blank string, a string `new URL` rejects, a value that
\* is no string at all), or the transport is neither 'http' nor 'sse'.
InvalidServer(p) ==
    \/ p.url # "valid"
    \/ p.transport \notin {"http", "sse"}

\* The request got past authentication and carries a server payload.
ReachedValidation ==
    /\ worker.pc = "responded"
    /\ worker.method = "POST"
    /\ requireUser(worker.session) # "null"
    /\ worker.body.json
    /\ worker.body.hasServer

\* C24: a request to one of the three routes whose server payload is invalid
\* is answered 400 validation_failed, and the client is not called.
C24_InvalidServerRejected ==
    ReachedValidation /\ InvalidServer(worker.body.server) =>
        /\ worker.response = respondJson(400, "validation_failed")
        /\ worker.clientCalls = <<>>

\* What the worker does keep: every call of the client carries a URL that
\* parses and a known transport.
C24_ClientNeverGetsInvalidServer ==
    \A i \in 1..Len(worker.clientCalls) :
        /\ worker.clientCalls[i].url = "valid"
        /\ worker.clientCalls[i].transport \in {"http", "sse"}

\* ------------------------------------------------------------------ C25
\* The GET that opens the stream was answered with a non-2xx status or
\* without a body.
ConnectRefused ==
    /\ transport = "sse"
    /\ connectReply.k \in {"status", "nobody"}

\* C25: once the connection attempt is answered with a non-2xx status or
\* without a body, the call has failed with handshake_failed (index.ts) or
\* sse_connection_failed (part_007) naming the status; the stream is never
\* read, no endpoint event is taken, and the GET stays the only request of
\* the call.
C25_ConnectFailureEndsCall ==
    ConnectRefused =>
        /\ pc \in {"complete", "done"}
        /\ rpc.state = "thrown"
        /\ rpc.err.cls = "McpClientError"
        /\ rpc.err.code = IF build = "index" THEN "handshake_failed"
                          ELSE "sse_connection_failed"
        /\ rpc.err.status = connectReply.status
        /\ Finished => outcome.state = "thrown" /\ outcome.err = rpc.err
        /\ streamState = "none"
        /\ delivered = 0
        /\ endpointEvent = NoEvent
        /\ messageEvent = NoEvent
        /\ Len(sent) = 1
        /\ sent[1].verb = "GET"
        /\ aborted = 1

\* part_007, callTool: the connect was answered 403 and the call failed with
\* sse_connection_failed after the one GET.
C25_Witness ==
    /\ ConnectRefused
    /\ build = "part007"
    /\ op = "callTool"
    /\ connectReply.status = 403
    /\ Finished
    /\ outcome.err.code = "sse_connection_failed"
    /\ Len(sent) = 1

\* ------------------------------------------------------------------ C26
\* index.ts: the stream was opened and waitForEvent('endpoint') came back
\* without an event while the stream was still open: its deadline passed.
EndpointDeadlinePassed ==
    /\ build = "index"
    /\ transport = "sse"
    /\ connectReply.k = "stream"
    /\ pc \in {"sseFinally", "complete", "done", "hung"}
    /\ endpointEvent = NoEvent
    /\ streamState = "open"
    /\ \A i \in 1..Len(sent) : sent[i].verb # "POST"

\* The error of the call whose stream closed before an endpoint event, or
\* whose endpoint event had empty data.
NoEndpointError ==
    McpClientError("Handshake did not return a post endpoint", "handshake_failed")

\* C26: when no endpoint event arrives before the deadline, the call fails
\* with a kind that identifies a timeout, and with an error other than the
\* one of a stream that closed early or of an endpoint event without data.
C26_EndpointTimeoutIsDistinct ==
    EndpointDeadlinePassed =>
        /\ rpc.state = "thrown"
        /\ rpc.err.code \in {"timeout", "sse_timeout", "http_timeout"}
        /\ rpc.err # NoEndpointError

\* ------------------------------------------------------------------ C27
\* index.ts: the POST of the payload was answered with a failing status.
PostRefused ==
    /\ build = "index"
    /\ transport = "sse"
    /\ postReply.k = "status"

\* index.ts: the POST was accepted and the wait for the message is over
\* without a message taken: the deadline passed or the stream closed.
NoMatchingMessage ==
    /\ build = "index"
    /\ transport = "sse"
    /\ postReply.k = "ok"
    /\ pc \in {"sseFinally", "complete", "done", "hung"}
    /\ messageEvent = NoEvent

C28_OneDeadlinePerCall ==
    timed.outcome # "idle" => timed.now - timed.callStart <= timed.timeoutMs

\* ------------------------------------------------------------------ C29
\* The value of a field line: what follows the field name, without the white
\* space around it.
FieldValue(line) == Trim(Tail(line))

\* The value of the last `event:` line, "message" when there is none.
RECURSIVE LastEventValue(_)
LastEventValue(ls) ==
    IF ls = <<>> THEN <<"message">>
    ELSE IF StartsWith(Last(ls), "event:") THEN FieldValue(Last(ls))
    ELSE LastEventValue(SubSeq(ls, 1, Len(ls) - 1))

\* The values of the `data:` lines, first to last, with \n between them.
RECURSIVE DataValue(_, _)
DataValue(ls, seen) ==
    IF ls = <<>> THEN <<>>
    ELSE IF StartsWith(Head(ls), "data:")
    THEN (IF seen THEN <<"LF">> ELSE <<>>) \o FieldValue(Head(ls)) \o DataValue(Tail(ls), TRUE)
    ELSE DataValue(Tail(ls), seen)

HasDataLine(ls) == \E i \in 1..Len(ls) : StartsWith(ls[i], "data:")

\* The block without its comment lines.
RECURSIVE WithoutComments(_, _)
WithoutComments(ls, seen) ==
    IF ls = <<>> THEN <<>>
    ELSE IF StartsWith(Head(ls), ":") THEN WithoutComments(Tail(ls), seen)
    ELSE (IF seen THEN <<"LF">> ELSE <<>>) \o Head(ls) \o WithoutComments(Tail(ls), TRUE)

\* C29 as stated: every block parses to an event whose name is the value of
\* its last `event:` line ("message" without one) and whose data is the
\* values of its `data:` lines joined with \n in order, and the block parses
\* the same without its comment lines.
C29_NameAndDataOfBlock ==
    block.state = "parsed" =>
        LET ls == SplitLines(block.chunk)
        IN  /\ block.event.event = LastEventValue(ls)
            /\ block.event.data = DataValue(ls, FALSE)
            /\ parseSseChunk(WithoutComments(ls, FALSE)) = block.event

\* C29, amended: the same, except that a block without a `data:` line whose
\* last `event:` line has an empty value parses to no event at all.
C29_NameAndDataOrNoEvent ==
    block.state = "parsed" =>
        LET ls == SplitLines(block.chunk)
        IN  /\ IF ~HasDataLine(ls) /\ LastEventValue(ls) = <<>>
               THEN block.event = NullEvent
               ELSE /\ block.event.event = LastEventValue(ls)
                    /\ block.event.data = DataValue(ls, FALSE)
            /\ parseSseChunk(WithoutComments(ls, FALSE)) = block.event

\* A block of two data lines: the event is named "message" and its data is
\* the two values with \n between them.
C29_Witness ==
    /\ block.state = "parsed"
    /\ block.chunk = <<"data:", "a", "LF", "data:", "b">>
    /\ block.event = [event |-> <<"message">>, data |-> <<"a", "LF", "b">>]

\* ------------------------------------------------------------------ C30
\* The read that reports the end of the stream while the buffer holds text.
EndWithTrailingText ==
    /\ ~parser.eof
    /\ parser'.eof
    /\ parser.text # <<>>

\* A read after the end of the stream.
ReadAfterEnd == parser.eof /\ parser' # parser

\* C30 as stated: the read that finds the stream ended with text in the
\* buffer returns exactly one event and empties the buffer; every read after
\* the end returns null and adds no event.
C30_TrailingTextIsOneEvent ==
    [][/\ EndWithTrailingText =>
             /\ Len(parser'.events) = Len(parser.events) + 1
             /\ parser'.text = <<>>
       /\ ReadAfterEnd =>
             /\ parser'.events = parser.events
             /\ parser'.text = <<>>
             /\ parser'.nulls = parser.nulls + 1]_vars

\* C30, amended: the trailing text is parsed once, as one block, which gives
\* one event, or none when parseSseChunk returns null for it; the buffer is
\* empty afterwards, and every read after the end returns null and adds no
\* event.
C30_TrailingTextIsOneBlock ==
    [][/\ EndWithTrailingText =>
             /\ IndexOfDelimiter(parser.text) = 0
             /\ parser'.events =
                  IF parseSseChunk(parser.text) = NullEvent THEN parser.events
                  ELSE Append(parser.events, parseSseChunk(parser.text))
             /\ parser'.nulls =
                  IF parseSseChunk(parser.text) = NullEvent THEN parser.nulls + 1
                  ELSE parser.nulls
             /\ parser'.text = <<>>
       /\ ReadAfterEnd =>
             /\ parser'.events = parser.events
             /\ parser'.text = <<>>
             /\ parser'.nulls = parser.nulls + 1]_vars

\* The stream `data:a` ended without a blank line: its text was returned as
\* one event, and the two reads after it returned null.
C30_Witness ==
    /\ parser.input = <<"data:", "a">>
    /\ parser.eof
    /\ parser.text = <<>>
    /\ parser.events = <<[event |-> <<"message">>, data |-> <<"a">>]>>
    /\ parser.nulls = 2

\* ------------------------------------------------------------------ C31
\* The latest primary or fallback request of an HTTP call was answered 2xx
\* with a body that is empty once trimmed / that is not JSON.
AnsweredEmpty == transport = "http" /\ answer.k = "ok" /\ answer.body = "empty"

AnsweredGarbage == transport = "http" /\ answer.k = "ok" /\ answer.body = "garbage"

\* C31: a 2xx answer with an empty body settles the exchange as a response
\* with the request's id and no result, and the call returns; a 2xx answer
\* with a body that is not JSON settles it as invalid_json, and the call
\* throws; in both cases the exchange is over with the answered request: the
\* loop is left, so no GET fallback and no retry follow it.
C31_EmptyBodyAndInvalidJson ==
    /\ AnsweredEmpty =>
          /\ pc \in {"complete", "done"}
          /\ rpc = Returned([kind |-> "object", jsonrpc |-> "2.0", id |-> payload.id,
                             error |-> FALSE, result |-> "undefined"])
          /\ Last(sent).id = payload.id
          /\ Finished => outcome.state = "returned"
    /\ AnsweredGarbage =>
          /\ pc \in {"complete", "done"}
          /\ rpc = Thrown(McpClientError("Failed to parse JSON-RPC response", "invalid_json"))
          /\ Last(sent).id = payload.id
          /\ Finished => outcome.state = "thrown" /\ outcome.err.code = "invalid_json"

\* part_007, callTool: the first POST was answered 200 with an empty body;
\* the call returned after that one POST (and the initialize before it).
C31_Witness ==
    /\ AnsweredEmpty
    /\ build = "part007"
    /\ op = "callTool"
    /\ Finished
    /\ outcome.state = "returned"
    /\ attempt = 0
    /\ Cardinality(PrimaryPosts) = 1
    /\ CountVerb("GET") = 0

\* ------------------------------------------------------------------ C32
WarningSet(ws) == {ws[i] : i \in 1..Len(ws)}

\* A primary POST of part_007 has just been rejected with an HTTP status.
PostJustRejected ==
    /\ build = "part007"
    /\ transport = "http"
    /\ pc = "post"
    /\ Len(sent') = Len(sent) + 1
    /\ postError'.cls = "HttpStatusError"

PayloadRequests == {i \in 1..Len(sent) : sent[i].method # "initialize" /\ sent[i].verb # ""}

\* C33 (generateRequestId taken to return a value it has not returned before):
\* in an HTTP call every initialize request has an id of its own, different
\* from the payload's and from the other initialize request's; every POST and
\* GET of the payload carries the payload's id and method.
C33_IdsPerRequest ==
    transport = "http" =>
        /\ \A i \in AllInitializeRequests :
              /\ sent[i].id # payload.id
              /\ \A j \in AllInitializeRequests : sent[i].id = sent[j].id => i = j
        /\ \A i \in PayloadRequests :
              /\ sent[i].id = payload.id
              /\ sent[i].method = payload.method
              /\ sent[i].url = "url"

\* part_007 with a handshake URL: two initialize requests, the POST, the GET
\* fallback, a retried POST and its GET; three ids in all.
C33_Witness ==
    /\ transport = "http"
    /\ build = "part007"
    /\ hasHandshakeUrl
    /\ Finished
    /\ Cardinality(AllInitializeRequests) = 2
    /\ Cardinality(PrimaryPosts) = 2
    /\ Cardinality(PayloadGets) = 2
    /\ Cardinality({sent[i].id : i \in 1..Len(sent)}) = 3

\* ------------------------------------------------------------------ C34
\* Is a message for the outstanding id among the events?
HoldsMessage(events, id) == \E i \in 1..Len(events) : IsMessageFor(events[i], id)

\* A message for the outstanding id is in the buffer or in a chunk not yet read.
MessageWaiting ==
    \/ HoldsMessage(handoff.buffer, handoff.id)
    \/ \E k \in 1..Len(handoff.wire) : HoldsMessage(handoff.wire[k], handoff.id)

\* C34: a message for the outstanding id that the server wrote behind the
\* endpoint event stays in the buffer or on the stream while the client
\* posts and until waitForMessage has returned it, whenever it was written
\* and however the chunks were cut, unless the stream itself fails; and
\* waitForMessage then ends with that message unless its deadline passes or
\* the stream fails.
C34_NoEventLostBetweenWaits ==
    /\ handoff.pc \in {"post", "message"} /\ handoff.owed /\ handoff.source # "errored"
           => MessageWaiting
    /\ handoff.pc = "done" /\ handoff.stage = "message" /\ handoff.owed
         /\ handoff.cause \notin {"deadline", "errored"}
           => handoff.result = HandoffMessage(handoff.id)

\* The message came in the chunk of the endpoint event, before the client had
\* posted, and waitForMessage returned it.
C34_Witness ==
    /\ handoff.pc = "done"
    /\ handoff.result = HandoffMessage(handoff.id)
    /\ handoff.owedAt = "endpoint"
    /\ handoff.owedWithEndpoint

\* ------------------------------------------------------------------ C35
Unauthenticated == worker.session \in {"noCookie", "getUserError", "noUserId"}

\* C35: a POST to /api/mcp/list, /api/mcp/call or /api/chat that brings no
\* session cookie, or a token that does not resolve to a user, never reaches
\* listTools or callTool, and is answered 401 auth_failed.
C35_NoClientCallWithoutUser ==
    worker.pc # "idle" /\ worker.method = "POST" /\ worker.route \in Routes /\ Unauthenticated
        => /\ worker.clientCalls = <<>>
           /\ worker.pc = "responded" => worker.response = respondJson(401, "auth_failed")

\* A complete, valid request for a tool call whose token resolves to no user.
C35_Witness ==
    /\ worker.pc = "responded"
    /\ worker.method = "POST"
    /\ worker.route = "/api/mcp/call"
    /\ worker.session = "getUserError"
    /\ HasRequired(worker.route, worker.body)
    /\ normaliseServer(worker.body.server) = "config"
    /\ worker.response = respondJson(401, "auth_failed")

\* ------------------------------------------------------------------ C36
\* C36: whatever servers were added, removed and selected, the selected id
\* is the id of a server of the list, and the three built-in servers are in
\* the list, in their places and not custom.
C36_SelectionAndBuiltIns ==
    store.pc = "chat" =>
        /\ HasServer(store, store.selectedServerId)
        /\ \A i \in 1..Len(DEFAULT_SERVERS) : store.servers[i] = DEFAULT_SERVERS[i]

\* The selected custom server was removed: the selection went to the first
\* built-in server.
C36_Witness ==
    /\ store.pc = "chat"
    /\ store.removed
    /\ store.servers = DEFAULT_SERVERS
    /\ store.toolsByServer["custom-1"] = NoList
    /\ store.selectedServerId = DEFAULT_SERVERS[1].id

\* ------------------------------------------------------------------ C37
\* A built-in id that no custom server of the list shares.
BuiltInOnly(serverId) ==
    /\ serverId \in DefaultIds
    /\ \A i \in 1..Len(store.servers) :
          store.servers[i].id = serverId => ~store.servers[i].isCustom

\* C37: removeServer with the id of a built-in server changes nothing: not
\* the list of servers, not the selected server, not the tools loaded for
\* that server, not its enabled tools.
C37_RemoveBuiltInChangesNothing ==
    store.pc = "chat" =>
        \A serverId \in ServerIds :
            BuiltInOnly(serverId) =>
                LET after == removeServer(store, serverId)
                IN  /\ after.servers = store.servers
                    /\ after.selectedServerId = store.selectedServerId
                    /\ after.toolsByServer[serverId] = store.toolsByServer[serverId]
                    /\ after.enabledTools[serverId] = store.enabledTools[serverId]

\* ------------------------------------------------------------------ C38
\* C38: a tool command leaves the page only when its tool is among the
\* enabled tools of the selected server at that moment; a command that does
\* not parse, or whose tool is not enabled, changes nothing: no request, no
\* message, typing as it was.
C38_ToolCommandNeedsEnabledTool ==
    store.pc = "chat" =>
        \A input \in ChatInputs :
            LET enabledNow == store.enabledTools[store.selectedServerId].names
                after == handleSend(store, input)
            IN  /\ input.slash /\ (~input.parses \/ input.name \notin enabledNow)
                       => after = store
                /\ input.slash /\ after.requests # store.requests
                       => /\ input.parses
                          /\ input.name \in enabledNow
                          /\ after.requests = Append(store.requests, [maybeTool |-> input.name])

\* A command for echo went out from the custom server while echo was
\* enabled there; echo has been switched off since, and the same command
\* would now be held back.
C38_Witness ==
    /\ store.pc = "chat"
    /\ store.requests = <<[maybeTool |-> "echo"]>>
    /\ store.messages = 2
    /\ store.selectedServerId = "custom-1"
    /\ store.toolsByServer["custom-1"] = ListOf(ListedTools)
    /\ store.enabledTools["custom-1"] = ListOf({})

====
